---- MODULE Spec2Model ----
(***************************************************************************)
(* SmartBot: order ledger, position ledger and trading orchestrator.       *)
(*                                                                         *)
(* Number representation.  The program computes with decimal.Decimal.      *)
(* Sizes and prices are integers counting units of 1e-8 (the program's     *)
(* epsilon, Decimal("0.00000001")), so Eps is 1 unit.  The position's      *)
(* entry price is the result of a Decimal division and need not be a whole *)
(* number of units: it is kept in units of 1e-8/DecScale, and so are the   *)
(* PnL figures computed from it (size * scaled price).  Decimal division   *)
(* rounds half-even to the context precision; DecDiv rounds half-even to   *)
(* the DecScale grid.                                                      *)
(***************************************************************************)
EXTENDS Integers, Sequences, FiniteSets, TLC

\* ---------------------------------------------------------------- bounds
MaxSize == 2            \* sizes of orders and fills range over 1..MaxSize
MaxPrice == 2           \* prices range over 1..MaxPrice
MaxPosOrders == 1       \* orders attached to the position in SpecPosition
MaxLedgerOrders == 1    \* orders created in SpecLedger
DecScale == 100         \* digits kept by a Decimal division, as a scale factor
MaxOrders == 3          \* orders the exchange accepts in the orchestrator specification
MaxIters == 2           \* loop iterations begun in the orchestrator specification
MaxTasks == 3           \* trading-loop tasks created in SpecLifecycle
MaxBtOrders == 2        \* orders placed at the backtest exchange in SpecBacktest
MaxBound == 3           \* largest grid bound and market price in SpecGrid
MaxLevels == 3          \* largest grid_levels argument in SpecGrid
MaxOrdersArg == 1       \* largest max_orders argument in SpecGrid
MaxLot == 2             \* largest lotSz, minSz and tickSz of the instrument in SpecPlace
MaxArg == 3             \* largest price and size argument of place_limit_order
max_orders == 1         \* GridStrategy.max_orders of the modelled configuration
order_size == 2         \* GridStrategy.order_size of the modelled configuration
GridPrices == <<2, 4, 6>>  \* GridStrategy.grid_prices of the modelled configuration

\* ------------------------------------------------------------- constants
Eps == 1                \* Decimal("0.00000001"), in units of 1e-8

Sizes == 1..MaxSize
Prices == 1..MaxPrice
Sides == {"buy", "sell"}
Fees == {0, 1}

Min(a, b) == IF a <= b THEN a ELSE b
Abs(a) == IF a < 0 THEN -a ELSE a

\* Decimal division a / b (b # 0), rounded half-even to a whole number of
\* result units.
DecDiv(a, b) ==
    LET n == IF b < 0 THEN -a ELSE a
        d == Abs(b)
        m == Abs(n)
        q == m \div d
        r == m % d
        up == (2 * r > d) \/ (2 * r = d /\ q % 2 = 1)
        mag == IF up THEN q + 1 ELSE q
    IN IF n < 0 THEN -mag ELSE mag

\* A price in units of 1e-8 as a Decimal on the entry-price scale.
Px(price) == price * DecScale

VARIABLES
    positions,      \* PositionManager.positions: sequence, position id = index
    orders,         \* OrderManager.orders: order id -> Order
    lastCall,       \* the last ledger call and its arguments
    running,        \* Bot.running
    pc,             \* where the trading-loop task stands
    current_position, \* Bot.current_position: a position id, 0 for None
    signals,        \* the signals of the current iteration
    cancelQueue,    \* cancel phase: orders of the snapshot still to visit
    placeQueue,     \* place phase: levels still to visit
    backoff,        \* seconds the loop sleeps at its current sleep
    lastError,      \* class of the exception the loop caught last
    stopPc,         \* where a stop() call stands
    stopQueue,      \* stop(): active orders still to cancel
    exOrders,       \* the exchange's orders: id -> order
    exState,        \* OkxExchange.state
    iters,          \* loop iterations begun so far
    hist,           \* what the current iteration has done so far
    tasks,          \* every trading-loop task created: task id -> its state
    task,           \* Bot.task: a task id, 0 for None
    stopWait,       \* tasks that stop() calls in flight are awaiting
    strategy,       \* the GridStrategy object: its fields and its ladder
    closing,        \* OkxExchange.closing
    session,        \* OkxExchange.session: none, open or closed
    run_task,       \* OkxExchange.run_task: none, or the state of the health-loop task
    stopping,       \* an OkxExchange.stop() call is suspended in `await self.run_task`
    wire,           \* the HTTP requests the last client call performed, in order
    details         \* OkxExchange.symbol_cache: the cached details of the coin

ledgerVars == <<positions, orders, lastCall>>
botVars == <<running, pc, current_position, signals, cancelQueue, placeQueue,
             backoff, lastError, stopPc, stopQueue, exOrders, exState, iters, hist>>
taskVars == <<tasks, task, stopWait>>
clientVars == <<closing, session, run_task, stopping, wire, details>>
vars == <<tasks, task, stopWait, strategy, closing, session, run_task, stopping, wire,
          details,
          positions, orders, lastCall, running, pc, current_position, signals,
          cancelQueue, placeQueue, backoff, lastError, stopPc, stopQueue,
          exOrders, exState, iters, hist>>

\* The GridStrategy of the modelled configuration: lower_bound 2,
\* upper_bound 6, grid_levels 3, arithmetic spacing
ConfiguredStrategy ==
    [lower_bound |-> GridPrices[1], upper_bound |-> GridPrices[Len(GridPrices)],
     grid_levels |-> Len(GridPrices), order_size |-> order_size,
     max_orders |-> max_orders, grid_prices |-> GridPrices]

\* get_symbol_details: the details used when the instruments request fails,
\* sizes and prices of the exchange client being in units of 0.01
DefaultDetails == [minSz |-> 1, lotSz |-> 1, tickSz |-> 1]

\* The symbol cache holding the default details
CachedDefaults == [minSz |-> 1, lotSz |-> 1, tickSz |-> 1, cached |-> TRUE]

NoSignals == [buy_levels |-> <<>>, sell_levels |-> <<>>]
NoHist == [failed |-> FALSE, traded |-> FALSE, recon |-> {}, pre |-> {},
           ok |-> TRUE, cancelReq |-> {}]

\* The orchestrator before start(), with no connection made yet.
BotIdle ==
    /\ running = FALSE
    /\ pc = "idle"
    /\ current_position = 0
    /\ signals = NoSignals
    /\ cancelQueue = <<>>
    /\ placeQueue = <<>>
    /\ backoff = 0
    /\ lastError = "none"
    /\ stopPc = "idle"
    /\ stopQueue = <<>>
    /\ exOrders = <<>>
    /\ exState = "ACTIVE"
    /\ iters = 0
    /\ hist = NoHist
    /\ tasks = <<>>
    /\ task = 0
    /\ stopWait = {}
    /\ closing = FALSE
    /\ session = "open"
    /\ run_task = "none"
    /\ stopping = FALSE
    /\ wire = <<>>

NoCall == [op |-> "none"]

\* ------------------------------------------------------ models/position.py

\* Position.__init__
NewPosition(size, price) ==
    [status |-> "OPEN",
     current_size |-> size,
     entry_price |-> Px(price),
     current_price |-> price,
     realized_pnl |-> 0,
     unrealized_pnl |-> 0,
     total_fees |-> 0,
     orders |-> <<>>,
     max_profit |-> 0,
     max_drawdown |-> 0]

\* Variant of CalculatePnl that stores the current drawdown, not its maximum
CalculatePnlMut(pos) ==
    LET unreal == IF pos.current_size > 0
                  THEN pos.current_size * (Px(pos.current_price) - pos.entry_price)
                  ELSE 0
        total_pnl == pos.realized_pnl + unreal
        max_profit == IF total_pnl > pos.max_profit THEN total_pnl ELSE pos.max_profit
    IN [pos EXCEPT !.unrealized_pnl = unreal,
                   !.max_profit = max_profit,
                   !.max_drawdown = max_profit - total_pnl]

\* Position.calculate_pnl
CalculatePnl(pos) ==
    LET unreal == IF pos.current_size > 0
                  THEN pos.current_size * (Px(pos.current_price) - pos.entry_price)
                  ELSE 0
        total_pnl == pos.realized_pnl + unreal
        max_profit == IF total_pnl > pos.max_profit THEN total_pnl ELSE pos.max_profit
        dd == max_profit - total_pnl
    IN [pos EXCEPT !.unrealized_pnl = unreal,
                   !.max_profit = max_profit,
                   !.max_drawdown = IF dd > @ THEN dd ELSE @]

\* Variant of ClosePos without the guard on the status
ClosePosMut(pos) ==
    [pos EXCEPT !.status = "CLOSED",
                !.realized_pnl = @ + pos.unrealized_pnl,
                !.unrealized_pnl = 0]

\* Position.close
ClosePos(pos) ==
    IF pos.status = "OPEN"
    THEN [pos EXCEPT !.status = "CLOSED",
                     !.realized_pnl = @ + pos.unrealized_pnl,
                     !.unrealized_pnl = 0]
    ELSE pos

\* Position.add_order: size > 0 buys, otherwise sells
AddOrder(pos, order_id, size, price, fee) ==
    LET p0 == [pos EXCEPT !.orders = Append(@, order_id), !.total_fees = @ + fee]
        bought ==
            LET total_cost == p0.current_size * p0.entry_price + size * Px(price)
                new_size == p0.current_size + size
            IN [p0 EXCEPT !.current_size = new_size,
                          !.entry_price = IF new_size # 0
                                          THEN DecDiv(total_cost, new_size)
                                          ELSE Px(price)]
        sold ==
            LET realized_size == Min(-size, p0.current_size)
                q == [p0 EXCEPT !.realized_pnl = @ + realized_size * (Px(price) - p0.entry_price),
                                !.current_size = @ - realized_size]
            IN IF q.current_size <= Eps THEN ClosePos(q) ELSE q
    IN CalculatePnl(IF size > 0 THEN bought ELSE sold)

\* Position.update_price
UpdatePrice(pos, price) ==
    CalculatePnl([pos EXCEPT !.current_price = price])

\* ------------------------------------------ managers/position_manager.py

\* PositionManager.open_position: the ledger after the call; the new
\* position's id is Len of the result
OpenPosition(ps, size, entry_price) ==
    Append(ps, NewPosition(size, entry_price))

\* PositionManager.close_position
ClosePosition(ps, position_id) ==
    IF position_id \in DOMAIN ps
    THEN [ps EXCEPT ![position_id] = ClosePos(@)]
    ELSE ps

\* PositionManager.add_order_to_position
AddOrderToPosition(ps, position_id, order_id, side, size, price, fee) ==
    IF position_id \notin DOMAIN ps
    THEN ps
    ELSE LET adjusted_size == IF side = "buy" THEN size ELSE -size
             added == [ps EXCEPT ![position_id] = AddOrder(@, order_id, adjusted_size, price, fee)]
         IN IF added[position_id].status = "CLOSED"
            THEN ClosePosition(added, position_id)
            ELSE added

\* PositionManager.get_position_for_order: id of the first position holding
\* the order, 0 for None
GetPositionForOrder(ps, order_id) ==
    LET holds(i) == \E k \in DOMAIN ps[i].orders : ps[i].orders[k] = order_id
        hits == {i \in DOMAIN ps : holds(i)}
    IN IF hits = {} THEN 0 ELSE CHOOSE i \in hits : \A j \in hits : i <= j

\* ------------------------- one position of the ledger under arbitrary calls

\* The ledger after one open_position call with any side, size and price.
PosInit ==
    /\ \E side \in Sides, size \in Sizes, price \in Prices :
         positions = OpenPosition(<<>>, IF side = "buy" THEN size ELSE -size, price)
    /\ orders = <<>>
    /\ lastCall = [op |-> "open_position", pid |-> 1]
    /\ BotIdle
    /\ strategy = ConfiguredStrategy
    /\ details = CachedDefaults

PosAddOrder ==
    \E pid \in DOMAIN positions, side \in Sides, size \in Sizes,
       price \in Prices, fee \in Fees :
        /\ Len(positions[pid].orders) < MaxPosOrders
        /\ positions' = AddOrderToPosition(positions, pid,
                            Len(positions[pid].orders) + 1, side, size, price, fee)
        /\ lastCall' = [op |-> "add_order_to_position", pid |-> pid, side |-> side,
                        size |-> size, price |-> price]
        /\ UNCHANGED <<orders, botVars, taskVars, strategy, clientVars>>

PosUpdatePrice ==
    \E pid \in DOMAIN positions, price \in Prices :
        /\ positions' = [positions EXCEPT ![pid] = UpdatePrice(@, price)]
        /\ lastCall' = [op |-> "update_price", pid |-> pid, price |-> price]
        /\ UNCHANGED <<orders, botVars, taskVars, strategy, clientVars>>

PosClose ==
    \E pid \in DOMAIN positions :
        /\ positions' = ClosePosition(positions, pid)
        /\ lastCall' = [op |-> "close_position", pid |-> pid]
        /\ UNCHANGED <<orders, botVars, taskVars, strategy, clientVars>>

PosNext == PosAddOrder \/ PosUpdatePrice \/ PosClose

SpecPosition == PosInit /\ [][PosNext]_vars

\* C1: every fill applied through addOrderToPosition to an OPEN position of
\* size c >= 0 and entry price e follows the reference algorithm: a buy of
\* s at p gives size c+s and an entry price E with E*(c+s) = c*e + s*p and
\* leaves realizedPnL alone; a sell of s at p realizes r = min(s, c), adds
\* r*(p-e) to realizedPnL, gives size c-r, keeps the entry price, and closes
\* the position exactly when the resulting size is below the epsilon.
\* E is a Decimal quotient, so its equation is stated up to the rounding of
\* the division (half a unit of E's last digit).
C1_FillAccounting ==
    [][(/\ lastCall'.op = "add_order_to_position"
        /\ positions[lastCall'.pid].status = "OPEN"
        /\ positions[lastCall'.pid].current_size >= 0) =>
           LET pre == positions[lastCall'.pid]
               post == positions'[lastCall'.pid]
               s == lastCall'.size
               p == Px(lastCall'.price)
               c == pre.current_size
               e == pre.entry_price
               r == Min(s, c)
           IN IF lastCall'.side = "buy"
              THEN /\ post.current_size = c + s
                   /\ 2 * Abs(post.entry_price * (c + s) - (c * e + s * p)) <= c + s
                   /\ post.realized_pnl = pre.realized_pnl
              ELSE /\ post.realized_pnl = pre.realized_pnl + r * (p - e)
                   /\ post.current_size = c - r
                   /\ post.entry_price = e
                   /\ (post.status = "CLOSED") <=> (c - r < Eps)]_vars

\* --------------------------------------------------------- models/order.py

NoPrice == 0 - 1        \* filled_price None
NoReason == "none"      \* close_reason None

\* Order.__init__
NewOrder(side, price, size) ==
    [side |-> side,
     price |-> price,
     size |-> size,
     status |-> "ACTIVE",
     filled_size |-> 0,
     filled_price |-> NoPrice,
     fee |-> 0,
     close_reason |-> NoReason]

\* Order.update_fill
UpdateFill(order, filled_size, filled_price, fee, status) ==
    [order EXCEPT !.filled_size = filled_size,
                  !.filled_price = filled_price,
                  !.fee = fee,
                  !.status = status]

\* Order.close
CloseOrd(order, reason, status) ==
    [order EXCEPT !.status = status, !.close_reason = reason]

\* ----------------------------------------------- execution/order_manager.py

\* OrderManager.create_order / add_order
CreateOrder(os, order_id, side, price, size) ==
    [i \in DOMAIN os \cup {order_id} |->
        IF i = order_id THEN NewOrder(side, price, size) ELSE os[i]]

\* OrderManager.close_order
CloseOrder(os, order_id, reason, status) ==
    IF order_id \in DOMAIN os
    THEN [os EXCEPT ![order_id] = CloseOrd(@, reason, status)]
    ELSE os

\* Variant of FillStatus that reports FILLED for any non-empty fill
FillStatusMut(filled_size, size) ==
    IF filled_size > 0 THEN "FILLED" ELSE "PARTIALLY_FILLED"

\* The status update_order_fill chooses for a reported fill
FillStatus(filled_size, size) ==
    IF filled_size >= size THEN "FILLED" ELSE "PARTIALLY_FILLED"

\* OrderManager.update_order_fill
UpdateOrderFill(os, order_id, filled_size, filled_price, fee) ==
    IF order_id \notin DOMAIN os
    THEN os
    ELSE LET status == FillStatus(filled_size, os[order_id].size)
             updated == [os EXCEPT ![order_id] =
                            UpdateFill(@, filled_size, filled_price, fee, status)]
         IN IF status = "FILLED"
            THEN CloseOrder(updated, order_id, "filled", "FILLED")
            ELSE updated

\* OrderManager.get_active_orders: the ids of the orders it returns
ActiveOrders(os) ==
    {i \in DOMAIN os : os[i].status \in {"ACTIVE", "PARTIALLY_FILLED"}}

\* ------------------------------- the order ledger under arbitrary calls

\* Fill sizes the exchange may report for an order.  The ledger records the
\* size the strategy asked for, the exchange the size it accepted
\* (_adjust_size raises it to minSz), so a report can exceed the ledger's size.
FillSizes == 0..(MaxSize + 1)

\* Statuses the callers of close_order pass: the default and the other
\* non-fill terminal status of the state machine.
CloseStatuses == {"CANCELED", "REJECTED"}

LedgerInit ==
    /\ orders = <<>>
    /\ positions = <<>>
    /\ lastCall = NoCall
    /\ BotIdle
    /\ strategy = ConfiguredStrategy
    /\ details = CachedDefaults

\* Order ids are assigned by the exchange and never reused.
LedgerCreate ==
    \E side \in Sides, price \in Prices, size \in Sizes :
        LET id == Cardinality(DOMAIN orders) + 1 IN
        /\ id <= MaxLedgerOrders
        /\ orders' = CreateOrder(orders, id, side, price, size)
        /\ lastCall' = NoCall
        /\ UNCHANGED <<positions, botVars, taskVars, strategy, clientVars>>

\* A fill report carries the order's limit price as avgPx and no fee: both
\* are stored as reported and decide nothing.
LedgerUpdateFill ==
    \E id \in DOMAIN orders, filled_size \in FillSizes :
        /\ orders' = UpdateOrderFill(orders, id, filled_size, orders[id].price, 0)
        /\ lastCall' = NoCall
        /\ UNCHANGED <<positions, botVars, taskVars, strategy, clientVars>>

LedgerClose ==
    \E id \in DOMAIN orders, status \in CloseStatuses :
        /\ orders' = CloseOrder(orders, id, "strategy_change", status)
        /\ lastCall' = NoCall
        /\ UNCHANGED <<positions, botVars, taskVars, strategy, clientVars>>

LedgerNext == LedgerCreate \/ LedgerUpdateFill \/ LedgerClose

SpecLedger == LedgerInit /\ [][LedgerNext]_vars

TerminalStatuses == {"FILLED", "CANCELED", "REJECTED"}

\* C3: FILLED, CANCELED and REJECTED are terminal: under any sequence of
\* createOrder, updateOrderFill and closeOrder calls an order in one of these
\* statuses never changes status again, and no order returns to ACTIVE.
C3_TerminalStatuses ==
    [][\A id \in DOMAIN orders :
          /\ orders[id].status \in TerminalStatuses
                => orders'[id].status = orders[id].status
          /\ orders[id].status # "ACTIVE" => orders'[id].status # "ACTIVE"]_vars

\* C4: every order of the ledger has 0 <= filled_size <= size in every
\* reachable state, whatever fill sizes the exchange reports.
C4_FilledWithinSize ==
    \A id \in DOMAIN orders :
        0 <= orders[id].filled_size /\ orders[id].filled_size <= orders[id].size

SeqToSet(q) == {q[i] : i \in DOMAIN q}

\* Python q[-n:] for n >= 0 (q[-0:] is the whole list)
LastN(q, n) == IF n = 0 \/ n >= Len(q) THEN q ELSE SubSeq(q, Len(q) - n + 1, Len(q))

\* Python q[:n] for n >= 0
FirstN(q, n) == SubSeq(q, 1, Min(n, Len(q)))

\* GridStrategy.generate_signals
GenerateSignals(price) ==
    LET Below(p) == p < price
        Above(p) == p > price
    IN [buy_levels |-> LastN(SelectSeq(GridPrices, Below), max_orders),
        sell_levels |-> FirstN(SelectSeq(GridPrices, Above), max_orders)]

\* ------------------------------------------------------------ core/bot.py

\* Prices the ticker can report; a failed price request yields Decimal("0")
\* (OkxExchange.get_symbol_price)
MarketPrices == {4, 5}
FailedPrice == 0

\* Variant of NeedsAttention that lets a rate-limited connection through
NeedsAttentionMut(state) == state \in {"API_ERROR", "NETWORK_ERROR"}

\* OkxExchange.get_status_report()["needs_attention"]
NeedsAttention(state) == state \in {"API_ERROR", "NETWORK_ERROR", "RATE_LIMITED"}

\* States the health loop moves the connection between while the bot runs
HealthStates == {"ACTIVE", "NETWORK_ERROR"}

ErrorClasses == {"ExchangeError", "StrategyError", "Exception"}

\* trading_loop's except clauses: the sleep after an error of class err
BackoffFor(err) ==
    IF err = "ExchangeError" THEN 30
    ELSE IF err = "StrategyError" THEN 10
    ELSE 60

\* Variant of AfterError in which an unexpected exception ends the loop
AfterErrorMut(err) == IF err = "Exception" THEN "done" ELSE "backoff"

\* trading_loop's except clauses: where the loop goes after catching err
AfterError(err) == "backoff"

\* Variant of StepAfter that runs the place phase before the cancel phase
StepAfterMut(step) ==
    IF step = "check_status" THEN "update_position"
    ELSE IF step = "update_position" THEN "update_orders"
    ELSE IF step = "update_orders" THEN "fetch_price"
    ELSE IF step = "fetch_price" THEN "place"
    ELSE IF step = "place" THEN "cancel"
    ELSE "sleep"

\* trading_loop / execute_strategy: the step that follows a finished step of
\* an iteration
StepAfter(step) ==
    IF step = "check_status" THEN "update_position"
    ELSE IF step = "update_position" THEN "update_orders"
    ELSE IF step = "update_orders" THEN "fetch_price"
    ELSE IF step = "fetch_price" THEN "cancel"
    ELSE IF step = "cancel" THEN "place"
    ELSE "sleep"

\* Steps of one iteration, each ending at an await
LoopSteps == {"check_status", "update_position", "update_orders",
              "fetch_price", "cancel", "place"}

\* Bot.order_exists
OrderExists(os, side, price) ==
    \E i \in ActiveOrders(os) :
        os[i].side = side /\ Abs(os[i].price - price) < Eps

\* Variant of ShouldCancel that never cancels a sell order
ShouldCancelMut(order, sig) ==
    order.side = "buy" /\ order.price \notin SeqToSet(sig.buy_levels)

\* cancel_outdated_orders: should_cancel for one order of the snapshot
ShouldCancel(order, sig) ==
    \/ order.side = "buy" /\ order.price \notin SeqToSet(sig.buy_levels)
    \/ order.side = "sell" /\ order.price \notin SeqToSet(sig.sell_levels)

\* Variant of NeedsNewPosition that opens a position for every order
NeedsNewPositionMut(ps, cur) == TRUE

\* place_order: whether a new position is opened for the order
NeedsNewPosition(ps, cur) ==
    cur = 0 \/ ps[cur].status # "OPEN"

\* A set of order ids as the list the ledger's dict iterates (insertion order)
RECURSIVE IdList(_)
IdList(ids) ==
    IF ids = {} THEN <<>>
    ELSE LET i == CHOOSE x \in ids : \A y \in ids : x <= y
         IN <<i>> \o IdList(ids \ {i})

\* place_new_orders: the levels its two loops visit, in order
PlaceList(sig) ==
    [i \in 1..Len(FirstN(sig.buy_levels, max_orders)) |->
        [side |-> "buy", price |-> sig.buy_levels[i]]]
    \o
    [i \in 1..Len(FirstN(sig.sell_levels, max_orders)) |->
        [side |-> "sell", price |-> sig.sell_levels[i]]]

\* Orders the exchange lists as pending (GET /api/v5/trade/orders-pending)
Pending(ex) == {i \in DOMAIN ex : ex[i].state \in {"live", "partially_filled"}}

\* update_orders: the ledger after every reported order in state filled or
\* partially_filled was fed to update_order_fill
RECURSIVE FeedFills(_, _, _)
FeedFills(os, ex, ids) ==
    IF ids = {} THEN os
    ELSE LET i == CHOOSE x \in ids : \A y \in ids : x <= y
         IN FeedFills(UpdateOrderFill(os, i, ex[i].fillSz, ex[i].price, 0), ex, ids \ {i})

\* update_orders: positions holding a reported order get the fetched price
RefreshPositions(ps, ids, price) ==
    [k \in DOMAIN ps |->
        IF \E i \in ids : GetPositionForOrder(ps, i) = k
        THEN UpdatePrice(ps[k], price)
        ELSE ps[k]]

\* place_order after the exchange accepted the order as order_id
PlaceOrderPositions(ps, cur, order_id, side, size, price) ==
    LET opened == IF NeedsNewPosition(ps, cur)
                  THEN OpenPosition(ps, IF side = "buy" THEN size ELSE -size, price)
                  ELSE ps
        pid == IF NeedsNewPosition(ps, cur) THEN Len(opened) ELSE cur
    IN [positions |-> AddOrderToPosition(opened, pid, order_id, side, size, price, 0),
        current_position |-> pid]

BotInit ==
    /\ positions = <<>>
    /\ orders = <<>>
    /\ lastCall = NoCall
    /\ BotIdle
    /\ strategy = ConfiguredStrategy
    /\ details = CachedDefaults

\* Bot.start, called once on the bot
BotStart ==
    /\ ~running
    /\ pc = "idle"
    /\ running' = TRUE
    /\ pc' = "check_status"
    /\ hist' = NoHist
    /\ lastCall' = NoCall
    /\ UNCHANGED <<positions, orders, current_position, signals, cancelQueue,
                   placeQueue, backoff, lastError, stopPc, stopQueue, exOrders, exState, iters>>
    /\ UNCHANGED <<taskVars, strategy, clientVars>>

\* trading_loop: while self.running, check_exchange_status
CheckStatus ==
    /\ pc = "check_status"
    /\ iters < MaxIters
    /\ iters' = iters + 1
    /\ pc' = IF ~running THEN "done"
             ELSE IF NeedsAttention(exState) THEN "sleep10"
             ELSE StepAfter("check_status")
    /\ backoff' = IF running /\ NeedsAttention(exState) THEN 10 ELSE 0
    /\ hist' = NoHist
    /\ lastCall' = NoCall
    /\ UNCHANGED <<positions, orders, running, current_position, signals, cancelQueue,
                   placeQueue, lastError, stopPc, stopQueue, exOrders, exState>>
    /\ UNCHANGED <<taskVars, strategy, clientVars>>

\* trading_loop: a sleep ends (after the interval, the 10s retry or a backoff)
SleepDone ==
    /\ pc \in {"sleep", "sleep10", "backoff"}
    /\ pc' = "check_status"
    /\ backoff' = 0
    /\ lastError' = "none"
    /\ signals' = NoSignals
    /\ hist' = NoHist
    /\ lastCall' = NoCall
    /\ UNCHANGED <<positions, orders, running, current_position, cancelQueue,
                   placeQueue, stopPc, stopQueue, exOrders, exState, iters>>
    /\ UNCHANGED <<taskVars, strategy, clientVars>>

\* Bot.update_position
BotUpdatePosition ==
    /\ pc = "update_position"
    /\ IF current_position # 0 /\ positions[current_position].status = "OPEN"
       THEN \E p \in MarketPrices \cup {FailedPrice} :
              /\ positions' = [positions EXCEPT ![current_position] = UpdatePrice(@, p)]
              /\ hist' = [hist EXCEPT !.failed = @ \/ p = FailedPrice]
       ELSE UNCHANGED <<positions, hist>>
    /\ pc' = StepAfter("update_position")
    /\ lastCall' = NoCall
    /\ UNCHANGED <<orders, running, current_position, signals, cancelQueue, placeQueue,
                   backoff, lastError, stopPc, stopQueue, exOrders, exState, iters>>
    /\ UNCHANGED <<taskVars, strategy, clientVars>>

\* Bot.update_orders.  The open-order request either fails (an empty dict
\* comes back) or lists the pending orders; one fetched price serves every
\* position refreshed in the pass.
BotUpdateOrders ==
    /\ pc = "update_orders"
    /\ \/ /\ hist' = [hist EXCEPT !.failed = TRUE]
          /\ UNCHANGED <<orders, positions>>
       \/ \E p \in MarketPrices :
            LET reported == {i \in Pending(exOrders) :
                                exOrders[i].state \in {"filled", "partially_filled"}}
            IN /\ orders' = FeedFills(orders, exOrders, reported)
               /\ positions' = RefreshPositions(positions, reported, p)
               /\ hist' = [hist EXCEPT !.recon =
                              {i \in DOMAIN exOrders : exOrders[i].state = "filled"}]
    /\ pc' = StepAfter("update_orders")
    /\ lastCall' = NoCall
    /\ UNCHANGED <<running, current_position, signals, cancelQueue, placeQueue,
                   backoff, lastError, stopPc, stopQueue, exOrders, exState, iters>>
    /\ UNCHANGED <<taskVars, strategy, clientVars>>

\* trading_loop: get_symbol_price, generate_signals, and execute_strategy up
\* to the snapshot cancel_outdated_orders takes of the active orders
BotFetchPrice ==
    /\ pc = "fetch_price"
    /\ \E p \in MarketPrices \cup {FailedPrice} :
         /\ signals' = GenerateSignals(p)
         /\ hist' = [hist EXCEPT !.failed = @ \/ p = FailedPrice,
                                 !.pre = ActiveOrders(orders)]
    /\ cancelQueue' = IdList(ActiveOrders(orders))
    /\ pc' = StepAfter("fetch_price")
    /\ lastCall' = NoCall
    /\ UNCHANGED <<positions, orders, running, current_position, placeQueue,
                   backoff, lastError, stopPc, stopQueue, exOrders, exState, iters>>
    /\ UNCHANGED <<taskVars, strategy, clientVars>>

\* cancel_outdated_orders: one order of the snapshot.  A cancel request
\* succeeds only for an order still pending at the exchange, and may fail.
BotCancelStep ==
    /\ pc = "cancel"
    /\ cancelQueue # <<>>
    /\ LET id == Head(cancelQueue) IN
       IF ShouldCancel(orders[id], signals)
       THEN \/ /\ id \in Pending(exOrders)
               /\ exOrders' = [exOrders EXCEPT ![id].state = "canceled"]
               /\ orders' = CloseOrder(orders, id, "strategy_change", "CANCELED")
               /\ hist' = [hist EXCEPT !.traded = TRUE, !.cancelReq = @ \cup {id}]
            \/ /\ hist' = [hist EXCEPT !.traded = TRUE, !.cancelReq = @ \cup {id},
                                       !.ok = FALSE]
               /\ UNCHANGED <<exOrders, orders>>
       ELSE UNCHANGED <<exOrders, orders, hist>>
    /\ cancelQueue' = Tail(cancelQueue)
    /\ lastCall' = NoCall
    /\ UNCHANGED <<positions, running, pc, current_position, signals, placeQueue,
                   backoff, lastError, stopPc, stopQueue, exState, iters>>
    /\ UNCHANGED <<taskVars, strategy, clientVars>>

\* execute_strategy: the cancel phase is over, place_new_orders begins
BotCancelDone ==
    /\ pc = "cancel"
    /\ cancelQueue = <<>>
    /\ placeQueue' = PlaceList(signals)
    /\ pc' = StepAfter("cancel")
    /\ lastCall' = NoCall
    /\ UNCHANGED <<positions, orders, running, current_position, signals, cancelQueue,
                   backoff, lastError, stopPc, stopQueue, exOrders, exState, hist, iters>>
    /\ UNCHANGED <<taskVars, strategy, clientVars>>

\* place_new_orders: one level.  place_limit_order returns the id of the
\* order the exchange accepted, or None.
BotPlaceStep ==
    /\ pc = "place"
    /\ placeQueue # <<>>
    /\ LET lvl == Head(placeQueue)
           id == Cardinality(DOMAIN exOrders) + 1
       IN IF OrderExists(orders, lvl.side, lvl.price)
          THEN /\ lastCall' = NoCall
               /\ UNCHANGED <<exOrders, orders, positions, current_position, hist>>
          ELSE \/ /\ id <= MaxOrders
                  /\ exOrders' = [i \in DOMAIN exOrders \cup {id} |->
                        IF i = id
                        THEN [side |-> lvl.side, price |-> lvl.price, size |-> order_size,
                              state |-> "live", fillSz |-> 0]
                        ELSE exOrders[i]]
                  /\ orders' = CreateOrder(orders, id, lvl.side, lvl.price, order_size)
                  /\ LET r == PlaceOrderPositions(positions, current_position, id,
                                                  lvl.side, order_size, lvl.price)
                     IN /\ positions' = r.positions
                        /\ current_position' = r.current_position
                  /\ hist' = [hist EXCEPT !.traded = TRUE]
                  /\ lastCall' = [op |-> "place_order", id |-> id, side |-> lvl.side,
                                  size |-> order_size,
                                  opened |-> NeedsNewPosition(positions, current_position)]
               \/ /\ hist' = [hist EXCEPT !.traded = TRUE, !.ok = FALSE]
                  /\ lastCall' = NoCall
                  /\ UNCHANGED <<exOrders, orders, positions, current_position>>
    /\ placeQueue' = Tail(placeQueue)
    /\ UNCHANGED <<running, pc, signals, cancelQueue, backoff, lastError, stopPc,
                   stopQueue, exState, iters>>
    /\ UNCHANGED <<taskVars, strategy, clientVars>>

\* trading_loop: the pass is over: log_status, then sleep(self.interval)
BotPlaceDone ==
    /\ pc = "place"
    /\ placeQueue = <<>>
    /\ pc' = StepAfter("place")
    /\ backoff' = 30
    /\ lastCall' = NoCall
    /\ UNCHANGED <<positions, orders, running, current_position, signals, cancelQueue,
                   placeQueue, lastError, stopPc, stopQueue, exOrders, exState, hist, iters>>
    /\ UNCHANGED <<taskVars, strategy, clientVars>>

\* trading_loop: a step raises an exception other than CancelledError and
\* the matching except clause handles it
BotRaise ==
    /\ pc \in LoopSteps
    /\ running
    /\ \E err \in ErrorClasses :
         /\ lastError' = err
         /\ backoff' = BackoffFor(err)
         /\ pc' = AfterError(err)
    /\ signals' = NoSignals
    /\ cancelQueue' = <<>>
    /\ placeQueue' = <<>>
    /\ lastCall' = NoCall
    /\ UNCHANGED <<positions, orders, running, current_position, stopPc, stopQueue,
                   exOrders, exState, hist, iters>>
    /\ UNCHANGED <<taskVars, strategy, clientVars>>

\* Variant of StopTargets that leaves partially filled orders out
StopTargetsMut(os) == {i \in DOMAIN os : os[i].status = "ACTIVE"}

\* Bot.stop: the orders its cleanup loop iterates
\* (self.order_manager.get_active_orders())
StopTargets(os) == ActiveOrders(os)

\* Bot.stop up to its cleanup loop: the task is cancelled at the await it is
\* suspended in and ends
BotStop ==
    /\ running
    /\ running' = FALSE
    /\ pc' = "done"
    /\ backoff' = 0
    /\ lastError' = "none"
    /\ stopQueue' = IdList(StopTargets(orders))
    /\ stopPc' = "cleanup"
    /\ signals' = NoSignals
    /\ cancelQueue' = <<>>
    /\ placeQueue' = <<>>
    /\ hist' = NoHist
    /\ lastCall' = NoCall
    /\ UNCHANGED <<positions, orders, current_position, exOrders, exState, iters>>
    /\ UNCHANGED <<taskVars, strategy, clientVars>>

\* Bot.stop: one cancel request of the cleanup loop; its outcome is ignored
BotStopCancel ==
    /\ stopPc = "cleanup"
    /\ stopQueue # <<>>
    /\ LET id == Head(stopQueue) IN
       \/ /\ id \in Pending(exOrders)
          /\ exOrders' = [exOrders EXCEPT ![id].state = "canceled"]
       \/ UNCHANGED exOrders
    /\ stopQueue' = Tail(stopQueue)
    /\ lastCall' = NoCall
    /\ UNCHANGED <<positions, orders, running, pc, current_position, signals,
                   cancelQueue, placeQueue, backoff, lastError, stopPc, exState, hist, iters>>
    /\ UNCHANGED <<taskVars, strategy, clientVars>>

\* Bot.stop returns
BotStopDone ==
    /\ stopPc = "cleanup"
    /\ stopQueue = <<>>
    /\ stopPc' = "idle"
    /\ lastCall' = NoCall
    /\ UNCHANGED <<positions, orders, running, pc, current_position, signals,
                   cancelQueue, placeQueue, backoff, lastError, stopQueue, exOrders,
                   exState, hist, iters>>
    /\ UNCHANGED <<taskVars, strategy, clientVars>>

\* The exchange fills a pending order, in part or in full.  The bot sees the
\* exchange's orders only in update_orders and when it requests a
\* cancellation, so the fills that matter are those made just before.
ExFill ==
    \E id \in Pending(exOrders), amount \in Sizes :
        /\ pc = "update_orders"
        /\ exOrders[id].fillSz + amount <= exOrders[id].size
        /\ exOrders' = [exOrders EXCEPT
              ![id].fillSz = @ + amount,
              ![id].state = IF exOrders[id].fillSz + amount = exOrders[id].size
                            THEN "filled" ELSE "partially_filled"]
        /\ lastCall' = NoCall
        /\ UNCHANGED <<positions, orders, running, pc, current_position, signals,
                       cancelQueue, placeQueue, backoff, lastError, stopPc, stopQueue,
                       exState, hist, iters>>
        /\ UNCHANGED <<taskVars, strategy, clientVars>>

\* OkxExchange.check_health (the health loop) moves the connection state.
\* The bot reads the state only in check_exchange_status, so the changes that
\* matter are those in effect when the loop is about to check.
ExHealth ==
    \E st \in HealthStates :
        /\ pc = "check_status"
        /\ st # exState
        /\ exState' = st
        /\ lastCall' = NoCall
        /\ UNCHANGED <<positions, orders, running, pc, current_position, signals,
                       cancelQueue, placeQueue, backoff, lastError, stopPc, stopQueue,
                       exOrders, hist, iters>>
        /\ UNCHANGED <<taskVars, strategy, clientVars>>

Next ==
    \/ BotStart
    \/ CheckStatus
    \/ SleepDone
    \/ BotUpdatePosition
    \/ BotUpdateOrders
    \/ BotFetchPrice
    \/ BotCancelStep
    \/ BotCancelDone
    \/ BotPlaceStep
    \/ BotPlaceDone
    \/ BotRaise
    \/ BotStop
    \/ BotStopCancel
    \/ BotStopDone
    \/ ExFill
    \/ ExHealth

Spec == BotInit /\ [][Next]_vars

\* ------------------------------------------- properties of the orchestrator

\* Whether an order's side+price is a level of the signal set sig
InSignals(order, sig) ==
    \/ order.side = "buy" /\ \E k \in DOMAIN sig.buy_levels : sig.buy_levels[k] = order.price
    \/ order.side = "sell" /\ \E k \in DOMAIN sig.sell_levels : sig.sell_levels[k] = order.price

\* The active orders of the ledger at one side+price
ActiveAt(side, price) ==
    {i \in ActiveOrders(orders) : orders[i].side = side /\ orders[i].price = price}

\* The pass that just ended ran cancel+place to the end and every exchange
\* cancel and placement it requested succeeded
PassSucceeded == pc = "sleep" /\ hist.ok

\* C2: after one cancel+place pass with a fresh signal set S in which every
\* exchange cancel and placement succeeds, every previously active order
\* whose side+price is not in S is cancelled at the exchange and closed in
\* the ledger with reason "strategy_change", every level of S has exactly one
\* active order, and the previously active orders whose side+price is in S
\* were neither cancelled nor duplicated.
C2_CancelPhase ==
    PassSucceeded =>
        /\ \A id \in hist.pre :
              ~InSignals(orders[id], signals) =>
                 /\ exOrders[id].state = "canceled"
                 /\ orders[id].status = "CANCELED"
                 /\ orders[id].close_reason = "strategy_change"
        /\ \A k \in DOMAIN signals.buy_levels :
              Cardinality(ActiveAt("buy", signals.buy_levels[k])) = 1
        /\ \A k \in DOMAIN signals.sell_levels :
              Cardinality(ActiveAt("sell", signals.sell_levels[k])) = 1
        /\ \A id \in hist.pre :
              InSignals(orders[id], signals) =>
                 /\ id \notin hist.cancelReq
                 /\ exOrders[id].state # "canceled"
                 /\ ActiveAt(orders[id].side, orders[id].price) = {id}

\* C2 witness: a successful pass that cancelled one order of the snapshot,
\* kept another and placed a new one.
C2_Witness ==
    /\ PassSucceeded
    /\ \E id \in hist.pre : orders[id].status = "CANCELED" /\ id \in hist.cancelReq
    /\ \E id \in hist.pre : InSignals(orders[id], signals) /\ id \in ActiveOrders(orders)
    /\ \E id \in ActiveOrders(orders) : id \notin hist.pre

OpenPositions == {k \in DOMAIN positions : positions[k].status = "OPEN"}

C7_ReconcileFeedsFills ==
    (pc = "sleep" /\ ~hist.failed) =>
        \A id \in hist.recon : orders[id].status = "FILLED"

\* C8: when place_order places an order of size s while no OPEN position
\* exists, at the end of the step the position it opened has size s for a buy
\* and -s for a sell, and the order is attached to it.
C8_OpenedPositionSize ==
    (lastCall.op = "place_order" /\ lastCall.opened) =>
        /\ positions[current_position].current_size =
              (IF lastCall.side = "buy" THEN lastCall.size ELSE 0 - lastCall.size)
        /\ GetPositionForOrder(positions, lastCall.id) = current_position

\* C9: an error raised by a step of an iteration does not end the loop: the
\* loop sleeps the backoff of the error's class (30 exchange, 10 strategy,
\* 60 other), the only way on from the backoff is into a further iteration,
\* and the loop ends only when stop() was called.
C9_ErrorContainment ==
    [][/\ pc' = "backoff" =>
            /\ lastError' \in ErrorClasses
            /\ backoff' = (IF lastError' = "ExchangeError" THEN 30
                           ELSE IF lastError' = "StrategyError" THEN 10
                           ELSE 60)
       /\ (lastError' # "none" /\ running') => pc' = "backoff"
       /\ (pc = "backoff" /\ pc' # "backoff") => (pc' = "check_status" \/ ~running')
       /\ pc' = "done" => ~running']_vars

\* C9 witness: an unexpected exception was caught in a second iteration and
\* the loop is in its 60s backoff, still running.
C9_Witness ==
    /\ pc = "backoff"
    /\ lastError = "Exception"
    /\ backoff = 60
    /\ running
    /\ iters = 2

\* C10: in an iteration in which fetching the price or the open-order list
\* failed, no order is cancelled or placed.
C10_FailurePausesIteration ==
    hist.failed => ~hist.traded

\* ------------------------------- the loop under every connection state

\* Every state check_health can leave the connection in
AllHealthStates == {"ACTIVE", "BALANCE_LOW", "API_ERROR", "NETWORK_ERROR", "RATE_LIMITED"}

\* OkxExchange.check_health with every outcome, while the loop is about to
\* check the status
ExHealthAny ==
    \E st \in AllHealthStates :
        /\ pc = "check_status"
        /\ st # exState
        /\ exState' = st
        /\ lastCall' = NoCall
        /\ UNCHANGED <<positions, orders, running, pc, current_position, signals,
                       cancelQueue, placeQueue, backoff, lastError, stopPc, stopQueue,
                       exOrders, hist, iters>>
        /\ UNCHANGED <<taskVars, strategy, clientVars>>

\* The trading loop with no exception, no stop() and no fill, under every
\* connection state
GateNext ==
    \/ BotStart
    \/ CheckStatus
    \/ SleepDone
    \/ BotUpdatePosition
    \/ BotUpdateOrders
    \/ BotFetchPrice
    \/ BotCancelStep
    \/ BotCancelDone
    \/ BotPlaceStep
    \/ BotPlaceDone
    \/ ExHealthAny

SpecGate == BotInit /\ [][GateNext]_vars

\* C11: in an iteration whose status report signals needs_attention
\* (connection state API_ERROR, NETWORK_ERROR or RATE_LIMITED) the loop goes
\* from the status check into its 10s sleep and from there back to the status
\* check, and neither ledger, the exchange's orders nor the signals change on
\* the way: no reconciliation, signal generation, cancellation or placement.
C11_NeedsAttentionGating ==
    [][/\ (/\ pc = "check_status"
           /\ pc' # "check_status"
           /\ exState \in {"API_ERROR", "NETWORK_ERROR", "RATE_LIMITED"})
          => /\ pc' = "sleep10"
             /\ backoff' = 10
             /\ UNCHANGED <<orders, positions, exOrders, signals, current_position>>
       /\ pc = "sleep10"
          => /\ pc' \in {"sleep10", "check_status"}
             /\ UNCHANGED <<orders, positions, exOrders, signals, current_position>>]_vars

\* C11 witness: after a pass that placed orders, a rate-limited connection
\* has sent the loop into its 10s sleep.
C11_Witness ==
    /\ pc = "sleep10"
    /\ exState = "RATE_LIMITED"
    /\ backoff = 10
    /\ ActiveOrders(orders) # {}

\* The position of a step in the order reconciliation -> signal generation
\* -> cancel phase -> place phase of one iteration
StepRank(step) ==
    IF step = "check_status" THEN 0
    ELSE IF step = "update_position" THEN 1
    ELSE IF step = "update_orders" THEN 2
    ELSE IF step = "fetch_price" THEN 3
    ELSE IF step = "cancel" THEN 4
    ELSE IF step = "place" THEN 5
    ELSE 6

\* C12: within an iteration that gets past the status check the steps run in
\* the order reconciliation, signal generation, cancel phase, place phase: a
\* step is left only for the next one (or for an error backoff, or because
\* of stop()); fills are fed to the ledger only during reconciliation,
\* signals are generated only after it, a cancellation is requested only in
\* the cancel phase with the signals in hand, and an order is placed only in
\* the place phase after the cancel phase has emptied its list.
C12_StepOrder ==
    [][/\ (pc \in {"update_position", "update_orders", "fetch_price", "cancel", "place"}
           /\ pc' # pc)
          => \/ StepRank(pc') = StepRank(pc) + 1
             \/ pc' \in {"backoff", "done"}
       /\ (\E id \in DOMAIN orders : orders'[id].filled_size # orders[id].filled_size)
          => pc = "update_orders"
       /\ (signals' # signals /\ signals' # NoSignals)
          => pc = "fetch_price" /\ pc' = "cancel"
       /\ (hist'.cancelReq # hist.cancelReq /\ hist'.cancelReq # {})
          => pc = "cancel" /\ signals' = signals
       /\ (DOMAIN exOrders' # DOMAIN exOrders)
          => pc = "place" /\ cancelQueue = <<>> /\ signals' = signals]_vars

\* C12 witness: a place phase has ended in an iteration that fed a partial
\* fill to the ledger, cancelled an order and placed a new one.
C12_Witness ==
    /\ pc = "place"
    /\ placeQueue = <<>>
    /\ hist.cancelReq # {}
    /\ \E id \in DOMAIN orders : orders[id].status = "PARTIALLY_FILLED"
    /\ \E id \in ActiveOrders(orders) : id \notin hist.pre

\* C13: stop() on a running bot cancels the loop task and goes on only when
\* the task has finished, then requests the exchange to cancel every order
\* still active in the Order Ledger, one after the other whatever the outcome
\* of each request, and returns once the list is exhausted.
C13_StopCleanup ==
    [][/\ (stopPc = "idle" /\ stopPc' = "cleanup")
          => /\ running /\ ~running'
             /\ pc' = "done"
             /\ SeqToSet(stopQueue') =
                   {i \in DOMAIN orders : orders[i].status \in {"ACTIVE", "PARTIALLY_FILLED"}}
             /\ Len(stopQueue') = Cardinality(SeqToSet(stopQueue'))
       /\ (stopPc = "cleanup" /\ stopQueue' # stopQueue)
          => /\ stopQueue' = Tail(stopQueue)
             /\ stopPc' = "cleanup"
             /\ \/ exOrders' = [exOrders EXCEPT ![Head(stopQueue)].state = "canceled"]
                \/ exOrders' = exOrders
       /\ stopPc = "cleanup"
          => /\ pc' = "done" /\ ~running'
             /\ orders' = orders
       /\ (stopPc = "cleanup" /\ stopPc' = "idle") => stopQueue = <<>>]_vars

\* C13 witness: stop() has returned after a cleanup in which one cancel
\* request succeeded and another failed.
C13_Witness ==
    /\ stopPc = "idle"
    /\ pc = "done"
    /\ ~running
    /\ \E i \in ActiveOrders(orders) : exOrders[i].state = "canceled"
    /\ \E i \in ActiveOrders(orders) : exOrders[i].state = "live"

\* --------------------------- start() and stop() calls and the loop tasks

\* Everything of the orchestrator that start() and stop() leave alone when
\* the ledgers are empty
loopVars == <<positions, orders, pc, current_position, signals, cancelQueue,
              placeQueue, backoff, lastError, stopPc, stopQueue, exOrders, exState,
              iters, hist, strategy, clientVars>>

\* Tasks that are not done: created and still to process a cancellation
AliveTasks(ts) == {i \in DOMAIN ts : ts[i] # "done"}

\* Bot.start: a no-op when running, otherwise running is set and a task is
\* created and stored in self.task
LifeStart ==
    /\ lastCall' = [op |-> "start", noop |-> running]
    /\ IF running
       THEN UNCHANGED <<running, tasks, task>>
       ELSE /\ Len(tasks) < MaxTasks
            /\ running' = TRUE
            /\ tasks' = Append(tasks, "pending")
            /\ task' = Len(tasks) + 1
    /\ UNCHANGED <<stopWait, loopVars>>

\* Bot.stop up to `await self.task`: a no-op when not running, otherwise
\* running is cleared, self.task is cancelled and the call waits for it
LifeStop ==
    /\ lastCall' = [op |-> "stop", noop |-> ~running]
    /\ IF ~running
       THEN UNCHANGED <<running, tasks, stopWait>>
       ELSE /\ running' = FALSE
            /\ tasks' = [tasks EXCEPT ![task] = IF @ = "pending" THEN "cancelling" ELSE @]
            /\ stopWait' = stopWait \cup {task}
    /\ UNCHANGED <<task, loopVars>>

\* trading_loop: a cancelled task is resumed with CancelledError at the
\* await it is suspended in, and ends
LifeTaskEnd ==
    \E i \in DOMAIN tasks :
        /\ tasks[i] = "cancelling"
        /\ tasks' = [tasks EXCEPT ![i] = "done"]
        /\ lastCall' = NoCall
        /\ UNCHANGED <<running, task, stopWait, loopVars>>

\* Bot.stop from `await self.task` on: the awaited task is done, the cleanup
\* loop finds no active order and the call returns
LifeStopReturn ==
    \E i \in stopWait :
        /\ tasks[i] = "done"
        /\ stopWait' = stopWait \ {i}
        /\ lastCall' = NoCall
        /\ UNCHANGED <<running, tasks, task, loopVars>>

LifeNext == LifeStart \/ LifeStop \/ LifeTaskEnd \/ LifeStopReturn

SpecLifecycle == BotInit /\ [][LifeNext]_vars

\* C14: start() on a running bot and stop() on a stopped bot change nothing,
\* and under every interleaving of start() and stop() calls, a start() issued
\* while a stop() awaits the loop's cancellation included, at most one
\* trading-loop task is alive at any time.
C14_OneTaskAlive ==
    [][/\ (lastCall'.op = "start" /\ running) => UNCHANGED <<running, taskVars>>
       /\ (lastCall'.op = "stop" /\ ~running) => UNCHANGED <<running, taskVars>>
       /\ Cardinality(AliveTasks(tasks')) <= 1]_vars

\* ----------------------------------------- properties of one position

\* C15: closePosition on an OPEN position sets the status to CLOSED, adds
\* the current unrealizedPnL to realizedPnL and sets unrealizedPnL to 0,
\* keeping realized+unrealized and every other field; on a CLOSED position it
\* changes no field.
C15_CloseFoldsPnl ==
    [][lastCall'.op = "close_position" =>
          LET pre == positions[lastCall'.pid]
              post == positions'[lastCall'.pid]
          IN IF pre.status = "OPEN"
             THEN /\ post = [pre EXCEPT !.status = "CLOSED",
                                        !.realized_pnl = pre.realized_pnl + pre.unrealized_pnl,
                                        !.unrealized_pnl = 0]
                  /\ post.realized_pnl + post.unrealized_pnl =
                        pre.realized_pnl + pre.unrealized_pnl
             ELSE positions' = positions]_vars

\* C15 witness: close_position has closed a position that no order was
\* added to and whose unrealized PnL was not zero.
C15_Witness ==
    /\ lastCall.op = "close_position"
    /\ positions[lastCall.pid].status = "CLOSED"
    /\ positions[lastCall.pid].orders = <<>>
    /\ positions[lastCall.pid].realized_pnl # 0
    /\ positions[lastCall.pid].unrealized_pnl = 0

\* C16: after every price update or fill on an OPEN position, unrealizedPnL
\* is currentSize*(currentPrice - entryPrice) when currentSize > 0 and 0
\* otherwise, maxProfit >= realizedPnL+unrealizedPnL, and maxDrawdown >=
\* maxProfit - (realizedPnL+unrealizedPnL) >= 0; maxProfit and maxDrawdown
\* never decrease over the position's lifetime.
C16_PnlBookkeeping ==
    [][/\ (/\ lastCall'.op \in {"update_price", "add_order_to_position"}
           /\ positions[lastCall'.pid].status = "OPEN")
          => LET post == positions'[lastCall'.pid]
                 total == post.realized_pnl + post.unrealized_pnl
             IN /\ post.unrealized_pnl =
                      (IF post.current_size > 0
                       THEN post.current_size * (post.current_price * DecScale - post.entry_price)
                       ELSE 0)
                /\ post.max_profit >= total
                /\ post.max_profit - total >= 0
                /\ post.max_drawdown >= post.max_profit - total
       /\ \A k \in DOMAIN positions :
             /\ positions'[k].max_profit >= positions[k].max_profit
             /\ positions'[k].max_drawdown >= positions[k].max_drawdown]_vars

\* C16 witness: a price update on an OPEN position that holds size, after
\* the position has seen both a profit and a drawdown.
C16_Witness ==
    /\ lastCall.op = "update_price"
    /\ positions[lastCall.pid].status = "OPEN"
    /\ positions[lastCall.pid].current_size > 0
    /\ positions[lastCall.pid].max_profit > 0
    /\ positions[lastCall.pid].max_drawdown > 0
    /\ positions[lastCall.pid].unrealized_pnl # 0

\* --------------------------------------------- backtest/async_exchange.py
\* The backtest exchange keeps its orders in exOrders, with the states open,
\* filled and canceled.

\* AsyncBacktestExchange(fee_rate, slippage): the defaults, fee_rate in units
\* of 1e-4
fee_rate == 5
slippage == 0

\* AsyncBacktestExchange.place_limit_order
BtPlaceOrder(ex, side, price, size) ==
    Append(ex, [side |-> side, price |-> price, size |-> size,
                state |-> "open", fillSz |-> 0])

\* Variant of BtCancelOk that accepts any known order
BtCancelOkMut(ex, order_id) ==
    order_id \in DOMAIN ex

\* AsyncBacktestExchange.cancel_order: its return value
BtCancelOk(ex, order_id) ==
    order_id \in DOMAIN ex /\ ex[order_id].state = "open"

\* AsyncBacktestExchange.cancel_order: the orders after the call
BtCancelOrder(ex, order_id) ==
    IF BtCancelOk(ex, order_id)
    THEN [ex EXCEPT ![order_id].state = "canceled"]
    ELSE ex

\* Variant of BtFills with the candle's bounds exclusive
BtFillsMut(o, low, high) ==
    /\ o.state = "open"
    /\ low < o.price /\ o.price < high
    /\ o.size - o.fillSz > 0

\* match_orders_with_current_candle: whether the loop fills order o
BtFills(o, low, high) ==
    /\ o.state = "open"
    /\ low <= o.price /\ o.price <= high
    /\ o.size - o.fillSz > 0

\* match_orders_with_current_candle: the fill record of order o; fill_price
\* in units of the price times (1 + slippage)'s scale, fee in units of 1e-4
BtFillRecord(order_id, o) ==
    LET filled == o.size - o.fillSz
        fill_price == o.price * (1 + (IF o.side = "sell" THEN slippage ELSE 0 - slippage))
    IN [ordId |-> order_id,
        filled_size |-> filled,
        fill_price |-> fill_price,
        fee |-> Abs(fill_price * filled) * fee_rate,
        state |-> "filled"]

\* match_orders_with_current_candle: the orders after the call
BtMatchOrders(ex, low, high) ==
    [i \in DOMAIN ex |->
        IF BtFills(ex[i], low, high)
        THEN [ex[i] EXCEPT !.fillSz = @ + (ex[i].size - ex[i].fillSz), !.state = "filled"]
        ELSE ex[i]]

\* match_orders_with_current_candle: the list of fills it returns, in the
\* order of the dict (placement order), for the orders 1..n
RECURSIVE BtMatchFills(_, _, _, _)
BtMatchFills(ex, low, high, n) ==
    IF n = 0 THEN <<>>
    ELSE BtMatchFills(ex, low, high, n - 1)
         \o (IF BtFills(ex[n], low, high) THEN <<BtFillRecord(n, ex[n])>> ELSE <<>>)

\* place_limit_order as the runner's bot calls it: with its order_size
BtPlace ==
    \E side \in Sides, price \in Prices :
        /\ Len(exOrders) < MaxBtOrders
        /\ exOrders' = BtPlaceOrder(exOrders, side, price, order_size)
        /\ lastCall' = [op |-> "place_limit_order", id |-> Len(exOrders) + 1]
        /\ UNCHANGED <<positions, orders, running, pc, current_position, signals,
                       cancelQueue, placeQueue, backoff, lastError, stopPc, stopQueue,
                       exState, iters, hist, taskVars, strategy, clientVars>>

\* cancel_order for a known or an unknown order id
BtCancel ==
    \E id \in 1..(Len(exOrders) + 1) :
        /\ exOrders' = BtCancelOrder(exOrders, id)
        /\ lastCall' = [op |-> "cancel_order", id |-> id, ok |-> BtCancelOk(exOrders, id)]
        /\ UNCHANGED <<positions, orders, running, pc, current_position, signals,
                       cancelQueue, placeQueue, backoff, lastError, stopPc, stopQueue,
                       exState, iters, hist, taskVars, strategy, clientVars>>

\* set_candle followed by match_orders_with_current_candle
BtMatch ==
    \E low \in Prices, high \in Prices :
        /\ low <= high
        /\ exOrders' = BtMatchOrders(exOrders, low, high)
        /\ lastCall' = [op |-> "match", low |-> low, high |-> high,
                        fills |-> BtMatchFills(exOrders, low, high, Len(exOrders))]
        /\ UNCHANGED <<positions, orders, running, pc, current_position, signals,
                       cancelQueue, placeQueue, backoff, lastError, stopPc, stopQueue,
                       exState, iters, hist, taskVars, strategy, clientVars>>

BtNext == BtPlace \/ BtCancel \/ BtMatch

SpecBacktest == BotInit /\ [][BtNext]_vars

GridBounds == 0..MaxBound

\* The step of an arithmetic ladder is a Decimal of the context's precision,
\* which keeps more digits than the eight decimals of a quantized price: the
\* step is held in units of 1/StepScale of a price unit
StepScale == 10 * DecScale

\* GridStrategy.validate_parameters: TRUE when it returns, FALSE when it
\* raises StrategyError
ValidParameters(s) ==
    /\ ~(s.lower_bound >= s.upper_bound)
    /\ ~(s.grid_levels < 3)
    /\ ~(s.order_size <= 0)

\* GridStrategy.generate_grid with arithmetic spacing: the step is the
\* rounded quotient, each price is lower_bound + step * i, and every price
\* is then quantized to eight decimals (half-even)
GenerateGrid(lower_bound, upper_bound, grid_levels) ==
    LET step == DecDiv((upper_bound - lower_bound) * StepScale, grid_levels - 1)
    IN [k \in 1..grid_levels |->
            DecDiv(lower_bound * StepScale + step * (k - 1), StepScale)]

\* GridStrategy.generate_signals of the strategy object s
GenerateSignalsOf(s, price) ==
    LET Below(p) == p < price
        Above(p) == p > price
    IN [buy_levels |-> LastN(SelectSeq(s.grid_prices, Below), s.max_orders),
        sell_levels |-> FirstN(SelectSeq(s.grid_prices, Above), s.max_orders)]

\* No GridStrategy object constructed yet
NoStrategy ==
    [lower_bound |-> 0, upper_bound |-> 0, grid_levels |-> 0,
     order_size |-> 0, max_orders |-> 0, grid_prices |-> <<>>]

GridInit ==
    /\ positions = <<>>
    /\ orders = <<>>
    /\ lastCall = NoCall
    /\ BotIdle
    /\ strategy = NoStrategy
    /\ details = CachedDefaults

\* GridStrategy(...): the fields are assigned, validate_parameters may raise,
\* and generate_grid builds the ladder; when it raises no object exists
GridNew ==
    /\ strategy = NoStrategy
    /\ \E lower \in GridBounds, upper \in GridBounds, levels \in 2..MaxLevels,
       size \in {0, order_size}, mo \in 0..MaxOrdersArg :
        LET s == [lower_bound |-> lower, upper_bound |-> upper, grid_levels |-> levels,
                  order_size |-> size, max_orders |-> mo, grid_prices |-> <<>>]
        IN /\ strategy' = IF ValidParameters(s)
                          THEN [s EXCEPT !.grid_prices = GenerateGrid(lower, upper, levels)]
                          ELSE NoStrategy
           /\ lastCall' = [op |-> "init", raised |-> ~ValidParameters(s)]
           /\ signals' = NoSignals
           /\ UNCHANGED <<positions, orders, running, pc, current_position, cancelQueue,
                          placeQueue, backoff, lastError, stopPc, stopQueue, exOrders,
                          exState, iters, hist, taskVars, clientVars>>

\* GridStrategy.update_grid: the three fields are assigned first, then
\* validate_parameters may raise, then generate_grid rebuilds the ladder
GridUpdate ==
    /\ strategy # NoStrategy
    /\ \E lower \in GridBounds, upper \in GridBounds, levels \in 2..MaxLevels :
        LET s == [strategy EXCEPT !.lower_bound = lower, !.upper_bound = upper,
                                  !.grid_levels = levels]
        IN /\ strategy' = IF ValidParameters(s)
                          THEN [s EXCEPT !.grid_prices = GenerateGrid(lower, upper, levels)]
                          ELSE s
           /\ lastCall' = [op |-> "update_grid", raised |-> ~ValidParameters(s)]
           /\ signals' = NoSignals
           /\ UNCHANGED <<positions, orders, running, pc, current_position, cancelQueue,
                          placeQueue, backoff, lastError, stopPc, stopQueue, exOrders,
                          exState, iters, hist, taskVars, clientVars>>

\* GridStrategy.generate_signals(price, position)
GridSignals ==
    /\ strategy # NoStrategy
    /\ \E price \in GridBounds :
        /\ signals' = GenerateSignalsOf(strategy, price)
        /\ lastCall' = [op |-> "generate_signals", price |-> price]
        /\ UNCHANGED <<positions, orders, running, pc, current_position, cancelQueue,
                       placeQueue, backoff, lastError, stopPc, stopQueue, exOrders,
                       exState, iters, hist, taskVars, strategy, clientVars>>

GridNext == GridNew \/ GridUpdate \/ GridSignals

SpecGrid == GridInit /\ [][GridNext]_vars

\* C18: generate_signals returns at most max_orders buy levels and at most
\* max_orders sell levels, every buy level strictly below the price and every
\* sell level strictly above it, and the levels returned are the ladder
\* levels nearest to the price on each side.
C18_SignalLevels ==
    lastCall.op = "generate_signals" =>
        LET price == lastCall.price
            below == {k \in DOMAIN strategy.grid_prices : strategy.grid_prices[k] < price}
            above == {k \in DOMAIN strategy.grid_prices : strategy.grid_prices[k] > price}
            buys == SeqToSet(signals.buy_levels)
            sells == SeqToSet(signals.sell_levels)
        IN /\ Len(signals.buy_levels) = Min(strategy.max_orders, Cardinality(below))
           /\ Len(signals.sell_levels) = Min(strategy.max_orders, Cardinality(above))
           /\ \A b \in buys : b < price
           /\ \A a \in sells : a > price
           /\ \A k \in below : \A b \in buys : strategy.grid_prices[k] <= b
                                               \/ strategy.grid_prices[k] \in buys
           /\ \A k \in above : \A a \in sells : strategy.grid_prices[k] >= a
                                                \/ strategy.grid_prices[k] \in sells

\* C19: a ladder built with arithmetic spacing has exactly grid_levels
\* prices, strictly increasing with a constant step, the first equal to the
\* lower bound and the last to the upper bound; the ladder of 90, 110 with
\* five levels is 90, 95, 100, 105, 110.
C19_ArithmeticGrid ==
    /\ GenerateGrid(90, 110, 5) = <<90, 95, 100, 105, 110>>
    /\ (lastCall.op \in {"init", "update_grid"} /\ ~lastCall.raised) =>
        LET g == strategy.grid_prices
        IN /\ Len(g) = strategy.grid_levels
           /\ g[1] = strategy.lower_bound
           /\ g[Len(g)] = strategy.upper_bound
           /\ \A k \in 1..(Len(g) - 1) : g[k] < g[k + 1]
           /\ \A k \in 1..(Len(g) - 1) : g[k + 1] - g[k] = g[2] - g[1]

\* C20: every strategy object, after its construction and any sequence of
\* update_grid calls, rejected ones included, has lower_bound < upper_bound,
\* grid_levels >= 3, order_size > 0 and a ladder of exactly grid_levels prices
\* generated from its current bounds.
C20_ValidParameters ==
    strategy # NoStrategy =>
    /\ strategy.lower_bound < strategy.upper_bound
    /\ strategy.grid_levels >= 3
    /\ strategy.order_size > 0
    /\ Len(strategy.grid_prices) = strategy.grid_levels
    /\ strategy.grid_prices =
        GenerateGrid(strategy.lower_bound, strategy.upper_bound, strategy.grid_levels)

\* ------------------------------------------- core/exchange.py, OkxExchange
\* Sizes and prices of the exchange client are whole numbers of units of 0.01.

\* What can happen to one HTTP request: answered with HTTP 200 and code 0;
\* answered with HTTP 200 and another code; answered with HTTP 429; not
\* delivered (connection failure or timeout); handled by the server with the
\* answer lost (timeout while waiting for it)
Outcomes == {"ok", "business", "http429", "network", "lost"}

\* The server handled the request: it was delivered and acted upon
Handled(outcome) == outcome \in {"ok", "lost"}

\* OkxExchange._request: the ok flag it returns for a request that was sent
RequestOk(outcome) == outcome = "ok"

\* OkxExchange._request: it returns ([], False) before any I/O when the
\* client is closing or has no session
CanSend == ~closing /\ session = "open"

\* No symbol details cached yet
NoDetails == [minSz |-> 0, lotSz |-> 0, tickSz |-> 0, cached |-> FALSE]

\* The symbol details an instruments request can return
DetailSet == [minSz : 1..MaxLot, lotSz : 0..MaxLot, tickSz : 0..MaxLot]

\* Variant of AdjustSize that does not raise the size to minSz
AdjustSizeMut(size, d) ==
    IF size <= 0 \/ d.lotSz <= 0 THEN 0
    ELSE (size \div d.lotSz) * d.lotSz

\* OkxExchange._adjust_size
AdjustSize(size, d) ==
    IF size <= 0 \/ d.lotSz <= 0 THEN 0
    ELSE LET multiplier == size \div d.lotSz
             adjusted == multiplier * d.lotSz
         IN IF adjusted >= d.minSz THEN adjusted ELSE d.minSz

\* OkxExchange._adjust_price
AdjustPrice(price, d) ==
    IF price <= 0 \/ d.tickSz <= 0 THEN 0
    ELSE (price \div d.tickSz) * d.tickSz

\* Variant of SubmitAttempts that stops after the first request
SubmitAttemptsMut(outs) == 1

\* OkxExchange._submit_order: the number of order requests it sends when the
\* k-th request would have outcome outs[k]: it stops at the first success and
\* gives up after three
SubmitAttempts(outs) ==
    IF \E k \in 1..3 : RequestOk(outs[k])
    THEN CHOOSE k \in 1..3 : RequestOk(outs[k]) /\ \A j \in 1..(k - 1) : ~RequestOk(outs[j])
    ELSE 3

\* OkxExchange._submit_order: the requests it sends, with their outcomes
SubmitOrder(outs, px, sz) ==
    [k \in 1..SubmitAttempts(outs) |->
        [path |-> "order", outcome |-> outs[k], px |-> px, sz |-> sz]]

\* OkxExchange.get_symbol_details: the request it sends, none when the
\* details are cached or the client cannot send
DetailsRequest(fetch) ==
    IF details.cached \/ ~CanSend THEN <<>>
    ELSE <<[path |-> "instruments", outcome |-> fetch.outcome, px |-> 0, sz |-> 0]>>

\* OkxExchange.get_symbol_details: the details it returns
DetailsResult(fetch) ==
    IF details.cached THEN [minSz |-> details.minSz, lotSz |-> details.lotSz,
                            tickSz |-> details.tickSz]
    ELSE IF CanSend /\ RequestOk(fetch.outcome) THEN fetch.data
    ELSE DefaultDetails

\* OkxExchange.get_symbol_details: the cache after the call
DetailsCache(fetch) ==
    IF ~details.cached /\ CanSend /\ RequestOk(fetch.outcome)
    THEN [minSz |-> fetch.data.minSz, lotSz |-> fetch.data.lotSz,
          tickSz |-> fetch.data.tickSz, cached |-> TRUE]
    ELSE details

\* Order requests among the requests w
OrderRequests(w) == {k \in DOMAIN w : w[k].path = "order"}

\* Orders the exchange has accepted among the requests w
Accepted(w) == {k \in OrderRequests(w) : Handled(w[k].outcome)}

\* The instruments answers get_symbol_details can meet (a failed request
\* carries no data): none when it sends no request
FetchSet ==
    {[outcome |-> "network", data |-> DefaultDetails]}
    \cup [outcome : {"ok"}, data : DetailSet]

Fetches ==
    IF details.cached \/ ~CanSend
    THEN {[outcome |-> "network", data |-> DefaultDetails]}
    ELSE FetchSet

\* The order answers _submit_order can meet, the answers after the first
\* success being irrelevant: none when it is not called
AnswerSet ==
    {a \in [1..3 -> {"ok", "business", "lost"}] :
        \A k \in 1..2 : RequestOk(a[k]) => a[k + 1] = "business"}

Answers(called) == IF called THEN AnswerSet ELSE {[k \in 1..3 |-> "business"]}

\* OkxExchange.place_limit_order(coin, side, price, size)
ClPlace ==
    \E price \in 0..MaxArg, size \in 0..MaxArg, fetch \in Fetches :
        LET d == DetailsResult(fetch)
            sz == AdjustSize(size, d)
            px == AdjustPrice(price, d)
            submit == ~closing /\ ~(sz <= 0 \/ px <= 0)
        IN \E outs \in Answers(submit /\ CanSend) :
           /\ IF closing
              THEN /\ wire' = <<>>
                   /\ lastCall' = [op |-> "place_limit_order", price |-> price,
                                   size |-> size, d |-> DefaultDetails, result |-> "none"]
                   /\ UNCHANGED details
              ELSE /\ details' = DetailsCache(fetch)
                   /\ wire' = DetailsRequest(fetch)
                              \o (IF submit /\ CanSend THEN SubmitOrder(outs, px, sz)
                                  ELSE <<>>)
                   /\ lastCall' = [op |-> "place_limit_order", price |-> price,
                                   size |-> size, d |-> d,
                                   result |-> IF submit /\ CanSend
                                                 /\ \E k \in 1..3 : RequestOk(outs[k])
                                              THEN "ordId" ELSE "none"]
           /\ UNCHANGED <<positions, orders, running, pc, current_position, signals,
                          cancelQueue, placeQueue, backoff, lastError, stopPc, stopQueue,
                          exOrders, exState, iters, hist, taskVars, strategy,
                          closing, session, run_task, stopping>>

\* OkxExchange.cancel_order(coin, order_id)
ClCancel ==
    \E outcome \in (IF CanSend THEN Outcomes ELSE {"network"}) :
        /\ wire' = IF CanSend
                   THEN <<[path |-> "cancel-order", outcome |-> outcome, px |-> 0, sz |-> 0]>>
                   ELSE <<>>
        /\ lastCall' = [op |-> "cancel_order", result |-> CanSend /\ RequestOk(outcome)]
        /\ UNCHANGED <<positions, orders, running, pc, current_position, signals,
                       cancelQueue, placeQueue, backoff, lastError, stopPc, stopQueue,
                       exOrders, exState, iters, hist, taskVars, strategy,
                       closing, session, run_task, stopping, details>>

\* The placement interface of a connected client whose symbol cache is empty
PlaceInit ==
    /\ positions = <<>>
    /\ orders = <<>>
    /\ lastCall = NoCall
    /\ BotIdle
    /\ strategy = ConfiguredStrategy
    /\ details = NoDetails

PlaceNext == ClPlace \/ ClCancel

SpecPlace == PlaceInit /\ [][PlaceNext]_vars

\* C21: every order request of a place_limit_order call carries the size
\* floor(size/lotSz)*lotSz, raised to minSz when that is below minSz, and the
\* price floor(price/tickSz)*tickSz, which is never above the requested price;
\* when either quantized value is <= 0 the call returns none and sends no
\* order request.
C21_Quantization ==
    lastCall.op = "place_limit_order" =>
        LET d == lastCall.d
            sent == OrderRequests(wire)
            floorSz == (lastCall.size \div d.lotSz) * d.lotSz
            floorPx == (lastCall.price \div d.tickSz) * d.tickSz
        IN /\ \A k \in sent :
                /\ wire[k].sz = IF floorSz < d.minSz THEN d.minSz ELSE floorSz
                /\ wire[k].px = floorPx
                /\ wire[k].px <= lastCall.price
           /\ (AdjustSize(lastCall.size, d) <= 0 \/ AdjustPrice(lastCall.price, d) <= 0) =>
                (sent = {} /\ lastCall.result = "none")

\* C21: a call whose size was raised to minSz and whose price was rounded
\* down to the tick was sent
C21_Witness ==
    /\ lastCall.op = "place_limit_order"
    /\ \E k \in OrderRequests(wire) :
        /\ wire[k].sz = lastCall.d.minSz
        /\ wire[k].sz > lastCall.size
        /\ wire[k].px < lastCall.price

\* C21: a call whose price was rounded down to zero was rejected
C21_WitnessRejected ==
    /\ lastCall.op = "place_limit_order"
    /\ lastCall.price > 0 /\ lastCall.size > 0
    /\ AdjustPrice(lastCall.price, lastCall.d) = 0
    /\ lastCall.result = "none"
    /\ OrderRequests(wire) = {}

\* C23: a business error (HTTP 200 with a non-success code) is not retried:
\* a placement answered with one sends exactly one order request and returns
\* none, and a cancellation answered with one returns false.
C23_BusinessErrorNotRetried ==
    /\ (/\ lastCall.op = "place_limit_order"
        /\ \E k \in OrderRequests(wire) : wire[k].outcome = "business")
       => (Cardinality(OrderRequests(wire)) = 1 /\ lastCall.result = "none")
    /\ (/\ lastCall.op = "cancel_order"
        /\ wire # <<>>
        /\ wire[1].outcome = "business")
       => lastCall.result = FALSE

\* C29: placement retries are not idempotent. An order request whose answer
\* is lost after the exchange has accepted the order is, unless it was the
\* third, followed by another request for the same order, which carries no
\* client order id and is accepted as a new order; C29_Witness is the
\* execution with two orders accepted for one call.
C29_RetryResubmits ==
    lastCall.op = "place_limit_order" =>
        \A k \in OrderRequests(wire) :
            (wire[k].outcome = "lost" /\ Cardinality({j \in OrderRequests(wire) : j <= k}) < 3)
                => /\ k + 1 \in OrderRequests(wire)
                   /\ wire[k + 1].px = wire[k].px
                   /\ wire[k + 1].sz = wire[k].sz

\* C29: one place_limit_order call that returned an order id after the
\* exchange had accepted two orders, the first with its answer lost
C29_Witness ==
    /\ lastCall.op = "place_limit_order"
    /\ lastCall.result = "ordId"
    /\ Cardinality(Accepted(wire)) = 2
    /\ \E k \in Accepted(wire) : wire[k].outcome = "lost"

\* ------------------------------------- .app/exchange.py, OkxExchange._request

\* `for attempt in range(1, 4)`: the attempts of one _request call
RequestTries == 3

\* What can happen to one attempt: an HTTP answer of some status (200 with
\* code 0, 200 with another code, 429, 502, 503, another status such as 500),
\* whose Retry-After header is absent, a number of seconds or an HTTP date; a
\* transport error (timeout, connection failure, non-JSON body); or another
\* exception (a body that is not valid JSON)
ReqOutcomes ==
    [kind : {"ok", "business", "http500", "network", "error"}, retry_after : {"absent"}]
    \cup [kind : {"http429", "http502", "http503"},
          retry_after : {"absent", "seconds", "date"}]

\* `resp.status in {429, 502, 503}`
RetryableStatus(o) == o.kind \in {"http429", "http502", "http503"}

\* The loop goes on to the next attempt: after a retryable status whose
\* Retry-After, when present, int() can convert (otherwise the ValueError is
\* caught by `except Exception`, which returns), and after a transport error
AttemptContinues(o) ==
    \/ RetryableStatus(o) /\ o.retry_after # "date"
    \/ o.kind = "network"

\* The number of attempts _request makes when the k-th attempt would have
\* outcome outs[k]
RequestAttempts(outs) ==
    IF \E k \in 1..RequestTries : ~AttemptContinues(outs[k])
    THEN CHOOSE k \in 1..RequestTries :
            /\ ~AttemptContinues(outs[k])
            /\ \A j \in 1..(k - 1) : AttemptContinues(outs[j])
    ELSE RequestTries

\* The ok flag _request returns
RequestReturnsOk(outs) == outs[RequestAttempts(outs)].kind = "ok"

\* The outcomes one call can meet, those after its last attempt being
\* irrelevant
ReqAnswerSet ==
    {a \in [1..RequestTries -> ReqOutcomes] :
        \A k \in 1..(RequestTries - 1) :
            ~AttemptContinues(a[k]) => a[k + 1] = [kind |-> "ok", retry_after |-> "absent"]}

\* OkxExchange._request(method, path, payload): it returns a tuple on every
\* path, no exception leaves it
ReqCall ==
    \E outs \in (IF closing THEN {[k \in 1..RequestTries |->
                                    [kind |-> "ok", retry_after |-> "absent"]]}
                 ELSE ReqAnswerSet) :
        /\ wire' = IF closing THEN <<>>
                   ELSE [k \in 1..RequestAttempts(outs) |-> outs[k]]
        /\ lastCall' = [op |-> "_request", raised |-> FALSE,
                        ok |-> ~closing /\ RequestReturnsOk(outs)]
        /\ UNCHANGED <<positions, orders, running, pc, current_position, signals,
                       cancelQueue, placeQueue, backoff, lastError, stopPc, stopQueue,
                       exOrders, exState, iters, hist, taskVars, strategy,
                       closing, session, run_task, stopping, details>>

\* OkxExchange.close of this client, as far as _request is concerned: it sets
\* the closing flag
ReqClose ==
    /\ ~closing
    /\ closing' = TRUE
    /\ session' = "none"
    /\ wire' = <<>>
    /\ lastCall' = [op |-> "close"]
    /\ UNCHANGED <<positions, orders, running, pc, current_position, signals,
                   cancelQueue, placeQueue, backoff, lastError, stopPc, stopQueue,
                   exOrders, exState, iters, hist, taskVars, strategy,
                   run_task, stopping, details>>

ReqNext == ReqCall \/ ReqClose

SpecRequest == BotInit /\ [][ReqNext]_vars

\* C22: one _request call retries after HTTP 429, 502, 503 and after transport
\* errors, makes at most three attempts, returns ok = true as soon as an
\* attempt succeeds, and returns a failure tuple instead of raising when the
\* attempts are exhausted.
C22_BoundedRetry ==
    lastCall.op = "_request" =>
        /\ ~lastCall.raised
        /\ Len(wire) <= 3
        /\ lastCall.ok <=> (wire # <<>> /\ wire[Len(wire)].kind = "ok")
        /\ \A k \in 1..(Len(wire) - 1) : wire[k].kind # "ok"
        /\ \A k \in DOMAIN wire :
            (k < 3 /\ (RetryableStatus(wire[k]) \/ wire[k].kind = "network"))
                => k < Len(wire)

\* ------------------------- core/exchange.py, OkxExchange: connection, health

\* `balance >= 10`: the balance below which the state is BALANCE_LOW
MinBalance == 10

\* The answers a balance request can meet, with the USDT balance an ok
\* answer carries
ProbeSet ==
    [outcome : {"ok"}, balance : {MinBalance - 1, MinBalance}]
    \cup [outcome : Outcomes \ {"ok"}, balance : {0}]

\* One request of the client, as it is written to wire
Req(path, outcome) == [path |-> path, outcome |-> outcome, px |-> 0, sz |-> 0]

\* Variant of Connect without the closing guard
ConnectMut(st, cl, se, p) ==
    [state |-> IF RequestOk(p.outcome) THEN "CONNECTED" ELSE "API_ERROR",
     session |-> "open",
     result |-> RequestOk(p.outcome),
     wire |-> <<Req("balance", p.outcome)>>]

\* OkxExchange.connect on a client in state st with closing flag cl and
\* session se, its balance probe meeting p: the state and session after it,
\* its return value and its requests. _request turns every failure of the
\* probe, timeouts and connection failures included, into ([], False), so
\* get_balance returns None, connect raises ExchangeError itself and the
\* `except Exception` branch sets API_ERROR
Connect(st, cl, se, p) ==
    IF cl
    THEN [state |-> st, session |-> se, result |-> FALSE, wire |-> <<>>]
    ELSE [state |-> IF RequestOk(p.outcome) THEN "CONNECTED" ELSE "API_ERROR",
          session |-> "open",
          result |-> RequestOk(p.outcome),
          wire |-> <<Req("balance", p.outcome)>>]

\* OkxExchange.check_health, its connect (when there is one) meeting p1 and
\* its own balance probe meeting p2: the state and session after it and its
\* requests
CheckHealth(st, cl, se, p1, p2) ==
    LET c == IF st \in {"DISCONNECTED", "NETWORK_ERROR"}
             THEN Connect(st, cl, se, p1)
             ELSE [state |-> st, session |-> se, result |-> TRUE, wire |-> <<>>]
        sends == ~cl /\ c.session = "open"
        gotBalance == sends /\ RequestOk(p2.outcome)
    IN [state |-> IF ~gotBalance THEN "API_ERROR"
                  ELSE IF p2.balance >= MinBalance THEN "ACTIVE" ELSE "BALANCE_LOW",
        session |-> c.session,
        wire |-> c.wire \o (IF sends THEN <<Req("balance", p2.outcome)>> ELSE <<>>)]

\* The probes check_health can meet in state st: its connect sends a request
\* only from DISCONNECTED and NETWORK_ERROR on a client that is not closing
ConnectProbes(st, cl) ==
    IF ~cl /\ st \in {"DISCONNECTED", "NETWORK_ERROR"} THEN ProbeSet
    ELSE {[outcome |-> "network", balance |-> 0]}

HealthProbes(cl) == IF cl THEN {[outcome |-> "network", balance |-> 0]} ELSE ProbeSet

\* A client just constructed
ClientInit ==
    /\ positions = <<>>
    /\ orders = <<>>
    /\ lastCall = NoCall
    /\ running = FALSE
    /\ pc = "idle"
    /\ current_position = 0
    /\ signals = NoSignals
    /\ cancelQueue = <<>>
    /\ placeQueue = <<>>
    /\ backoff = 0
    /\ lastError = "none"
    /\ stopPc = "idle"
    /\ stopQueue = <<>>
    /\ exOrders = <<>>
    /\ iters = 0
    /\ hist = NoHist
    /\ tasks = <<>>
    /\ task = 0
    /\ stopWait = {}
    /\ strategy = ConfiguredStrategy
    /\ details = CachedDefaults
    /\ exState = "DISCONNECTED"
    /\ closing = FALSE
    /\ session = "none"
    /\ run_task = "none"
    /\ stopping = FALSE
    /\ wire = <<>>

\* Everything the connection and health operations leave alone
clientRest == <<positions, orders, running, pc, current_position, signals,
                cancelQueue, placeQueue, backoff, lastError, stopPc, stopQueue,
                exOrders, iters, hist, taskVars, strategy, details>>

\* OkxExchange.connect()
ClConnect ==
    \E p \in HealthProbes(closing) :
        LET c == Connect(exState, closing, session, p)
        IN /\ exState' = c.state
           /\ session' = c.session
           /\ wire' = c.wire
           /\ lastCall' = [op |-> "connect", probe |-> p.outcome, result |-> c.result]
           /\ UNCHANGED <<clientRest, closing, run_task, stopping>>

\* OkxExchange.check_health() called on its own
ClCheckHealth ==
    \E p1 \in ConnectProbes(exState, closing), p2 \in HealthProbes(closing) :
        LET h == CheckHealth(exState, closing, session, p1, p2)
        IN /\ exState' = h.state
           /\ session' = h.session
           /\ wire' = h.wire
           /\ lastCall' = [op |-> "check_health", probe |-> p2.outcome,
                           balance |-> p2.balance]
           /\ UNCHANGED <<clientRest, closing, run_task, stopping>>

\* OkxExchange.close(): a no-op when closing; otherwise the flag is set, the
\* stop() it awaits returns at once because the flag is set, the session is
\* closed and dropped and the state becomes DISCONNECTED
ClClose ==
    /\ lastCall' = [op |-> "close"]
    /\ wire' = <<>>
    /\ IF closing
       THEN UNCHANGED <<closing, session, exState>>
       ELSE /\ closing' = TRUE
            /\ session' = "none"
            /\ exState' = "DISCONNECTED"
    /\ UNCHANGED <<clientRest, run_task, stopping>>

\* OkxExchange.run(): a no-op when closing or when the health loop is alive;
\* otherwise it connects, raises ExchangeError when that fails and creates
\* the health-loop task, which has not started when run() returns
ClRun ==
    \E p \in HealthProbes(closing \/ run_task \in {"created", "running"}) :
        IF closing \/ run_task \in {"created", "running"}
        THEN /\ lastCall' = [op |-> "run", result |-> "returned"]
             /\ wire' = <<>>
             /\ UNCHANGED <<clientRest, closing, session, exState, run_task, stopping>>
        ELSE LET c == Connect(exState, closing, session, p)
             IN /\ exState' = c.state
                /\ session' = c.session
                /\ wire' = c.wire
                /\ run_task' = IF c.result THEN "created" ELSE run_task
                /\ lastCall' = [op |-> "run",
                                result |-> IF c.result THEN "started" ELSE "raised"]
                /\ UNCHANGED <<clientRest, closing, stopping>>

\* health_loop: one iteration of a task that has not been cancelled. It
\* breaks off when closing (the finally block then has nothing to close);
\* otherwise it runs check_health and sleeps
TaskStep ==
    /\ run_task \in {"created", "running"}
    /\ ~stopping
    /\ \E p1 \in ConnectProbes(exState, closing), p2 \in HealthProbes(closing) :
        IF closing
        THEN /\ run_task' = "done"
             /\ wire' = <<>>
             /\ lastCall' = [op |-> "health_loop", ended |-> TRUE]
             /\ UNCHANGED <<clientRest, closing, session, exState, stopping>>
        ELSE LET h == CheckHealth(exState, closing, session, p1, p2)
             IN /\ run_task' = "running"
                /\ exState' = h.state
                /\ session' = h.session
                /\ wire' = h.wire
                /\ lastCall' = [op |-> "health_loop", ended |-> FALSE]
                /\ UNCHANGED <<clientRest, closing, stopping>>

\* health_loop: a cancelled task is resumed. A task that has not started
\* ends before its first statement, so neither the except nor the finally
\* block runs; a started task catches CancelledError and its finally block
\* calls close() unless the client is closing
TaskCancelled ==
    /\ run_task \in {"created", "running"}
    /\ stopping
    /\ run_task' = "done"
    /\ wire' = <<>>
    /\ lastCall' = [op |-> "health_loop", ended |-> TRUE]
    /\ IF run_task = "created" \/ closing
       THEN UNCHANGED <<closing, session, exState>>
       ELSE /\ closing' = TRUE
            /\ session' = "none"
            /\ exState' = "DISCONNECTED"
    /\ UNCHANGED <<clientRest, stopping>>

\* OkxExchange.stop() up to `await self.run_task`: a no-op when closing or
\* when no health loop is alive; otherwise the stop event is set, the task
\* is cancelled and the call waits for it
ClStop ==
    /\ ~stopping
    /\ wire' = <<>>
    /\ IF closing \/ run_task \in {"none", "done"}
       THEN /\ lastCall' = [op |-> "stop", returned |-> TRUE, waited |-> FALSE]
            /\ UNCHANGED stopping
       ELSE /\ lastCall' = [op |-> "stop", returned |-> FALSE, waited |-> TRUE]
            /\ stopping' = TRUE
    /\ UNCHANGED <<clientRest, closing, session, exState, run_task>>

\* OkxExchange.stop() from `await self.run_task` on: the task is done and
\* the call returns
ClStopReturn ==
    /\ stopping
    /\ run_task = "done"
    /\ stopping' = FALSE
    /\ wire' = <<>>
    /\ lastCall' = [op |-> "stop", returned |-> TRUE, waited |-> TRUE]
    /\ UNCHANGED <<clientRest, closing, session, exState, run_task>>

\* OkxExchange.get_balance(coin)
ClGetBalance ==
    \E p \in HealthProbes(~CanSend) :
        /\ wire' = IF CanSend THEN <<Req("balance", p.outcome)>> ELSE <<>>
        /\ lastCall' = [op |-> "get_balance",
                        result |-> IF CanSend /\ RequestOk(p.outcome)
                                   THEN "balance" ELSE "none"]
        /\ UNCHANGED <<clientRest, closing, session, exState, run_task, stopping>>

\* OkxExchange.get_symbol_price(coin): the price, or zero on failure
ClGetPrice ==
    \E p \in HealthProbes(~CanSend) :
        /\ wire' = IF CanSend THEN <<Req("ticker", p.outcome)>> ELSE <<>>
        /\ lastCall' = [op |-> "get_symbol_price",
                        result |-> IF CanSend /\ RequestOk(p.outcome) THEN 1 ELSE 0]
        /\ UNCHANGED <<clientRest, closing, session, exState, run_task, stopping>>

\* OkxExchange.get_open_orders(coin): the pending orders, or the empty
\* dictionary on failure
ClGetOpenOrders ==
    \E p \in HealthProbes(~CanSend) :
        /\ wire' = IF CanSend THEN <<Req("orders-pending", p.outcome)>> ELSE <<>>
        /\ lastCall' = [op |-> "get_open_orders",
                        result |-> IF CanSend /\ RequestOk(p.outcome)
                                   THEN "orders" ELSE "empty"]
        /\ UNCHANGED <<clientRest, closing, session, exState, run_task, stopping>>

\* OkxExchange.cancel_all_orders(coin): the pending orders are read and, when
\* that succeeds, cancelled in one batch request; the ids cancelled, or the
\* empty list on failure
ClCancelAll ==
    \E p1 \in HealthProbes(~CanSend), p2 \in HealthProbes(~CanSend) :
        /\ (~RequestOk(p1.outcome)) => p2 = p1
        /\ wire' = IF ~CanSend THEN <<>>
                   ELSE <<Req("orders-pending", p1.outcome)>>
                        \o (IF RequestOk(p1.outcome)
                            THEN <<Req("cancel-batch-orders", p2.outcome)>> ELSE <<>>)
        /\ lastCall' = [op |-> "cancel_all_orders",
                        result |-> IF CanSend /\ RequestOk(p1.outcome)
                                      /\ RequestOk(p2.outcome)
                                   THEN "ids" ELSE "empty"]
        /\ UNCHANGED <<clientRest, closing, session, exState, run_task, stopping>>

\* The client's operations; orders are placed here on a closed client only,
\* placement on an open one being the subject of SpecPlace
ClientNext ==
    \/ ClConnect \/ ClCheckHealth \/ ClClose \/ ClRun \/ TaskStep \/ TaskCancelled
    \/ ClStop \/ ClStopReturn \/ ClGetBalance \/ ClGetPrice \/ ClGetOpenOrders
    \/ ClCancelAll \/ ClCancel \/ (closing /\ ClPlace)

SpecClient == ClientInit /\ [][ClientNext]_vars

\* C24: connect() returns true and sets CONNECTED when the balance probe
\* succeeds; it returns false and sets NETWORK_ERROR when the probe fails by
\* a timeout or connection failure, and API_ERROR when it fails otherwise.
C24_ConnectOutcome ==
    (lastCall.op = "connect" /\ wire # <<>>) =>
        /\ lastCall.probe = "ok" => (lastCall.result /\ exState = "CONNECTED")
        /\ lastCall.probe \in {"network", "lost"} =>
                (~lastCall.result /\ exState = "NETWORK_ERROR")
        /\ lastCall.probe \in {"business", "http429"} =>
                (~lastCall.result /\ exState = "API_ERROR")

\* C25: a health check sets ACTIVE when the probed balance is at least the
\* minimum and BALANCE_LOW otherwise; a probe answered with HTTP 429 sets
\* RATE_LIMITED, another API failure API_ERROR, and a connection failure or
\* timeout NETWORK_ERROR.
C25_HealthMapping ==
    (lastCall.op = "check_health" /\ ~closing) =>
        /\ lastCall.probe = "ok" =>
                exState = IF lastCall.balance >= MinBalance
                          THEN "ACTIVE" ELSE "BALANCE_LOW"
        /\ lastCall.probe = "http429" => exState = "RATE_LIMITED"
        /\ lastCall.probe = "business" => exState = "API_ERROR"
        /\ lastCall.probe \in {"network", "lost"} => exState = "NETWORK_ERROR"

\* C26: close() is terminal: the closing flag is never cleared, no request
\* is sent once it is set, and connect, run, get_balance, get_symbol_price,
\* place_limit_order, cancel_order, cancel_all_orders and get_open_orders
\* return their failure value.
C26_CloseTerminal ==
    [][closing =>
        /\ closing'
        /\ wire' = <<>>
        /\ lastCall'.op = "connect" => lastCall'.result = FALSE
        /\ lastCall'.op = "run" => lastCall'.result = "returned"
        /\ lastCall'.op = "get_balance" => lastCall'.result = "none"
        /\ lastCall'.op = "get_symbol_price" => lastCall'.result = 0
        /\ lastCall'.op = "place_limit_order" => lastCall'.result = "none"
        /\ lastCall'.op = "cancel_order" => lastCall'.result = FALSE
        /\ lastCall'.op = "cancel_all_orders" => lastCall'.result = "empty"
        /\ lastCall'.op = "get_open_orders" => lastCall'.result = "empty"]_vars

\* C26: connect() was called on a client that had been connected and then
\* closed, and failed without a request
C26_Witness ==
    /\ closing
    /\ session = "none"
    /\ lastCall.op = "connect"
    /\ lastCall.result = FALSE
    /\ wire = <<>>

\* C27: when stop() returns after waiting for the health-loop task, whatever
\* the task was doing when stop() was called, the task has ended and the
\* session is closed.
C27_StopClosesSession ==
    (lastCall.op = "stop" /\ lastCall.returned /\ lastCall.waited) =>
        (run_task = "done" /\ session # "open")

\* ------------------------------- stop() while a placement is in flight

\* place_order up to the await of place_limit_order: the request is sent.
\* The exchange accepts the order and the reply is still on its way (the
\* loop task is suspended in the await), or the request fails and None
\* comes back, or the level already has an order and nothing is sent.
BotPlaceSend ==
    /\ pc = "place"
    /\ placeQueue # <<>>
    /\ LET lvl == Head(placeQueue)
           id == Cardinality(DOMAIN exOrders) + 1
       IN IF OrderExists(orders, lvl.side, lvl.price)
          THEN /\ placeQueue' = Tail(placeQueue)
               /\ UNCHANGED <<exOrders, pc, hist>>
          ELSE \/ /\ id <= MaxOrders
                  /\ exOrders' = [i \in DOMAIN exOrders \cup {id} |->
                        IF i = id
                        THEN [side |-> lvl.side, price |-> lvl.price, size |-> order_size,
                              state |-> "live", fillSz |-> 0]
                        ELSE exOrders[i]]
                  /\ pc' = "placing"
                  /\ hist' = [hist EXCEPT !.traded = TRUE]
                  /\ UNCHANGED placeQueue
               \/ /\ hist' = [hist EXCEPT !.traded = TRUE, !.ok = FALSE]
                  /\ placeQueue' = Tail(placeQueue)
                  /\ UNCHANGED <<exOrders, pc>>
    /\ lastCall' = NoCall
    /\ UNCHANGED <<positions, orders, running, current_position, signals, cancelQueue,
                   backoff, lastError, stopPc, stopQueue, exState, iters>>
    /\ UNCHANGED <<taskVars, strategy, clientVars>>

\* place_order from the return of place_limit_order with the order id: the
\* order enters the ledger and is attached to the current position
BotPlaceReceive ==
    /\ pc = "placing"
    /\ LET lvl == Head(placeQueue)
           id == Cardinality(DOMAIN exOrders)
       IN /\ orders' = CreateOrder(orders, id, lvl.side, lvl.price, order_size)
          /\ LET r == PlaceOrderPositions(positions, current_position, id,
                                          lvl.side, order_size, lvl.price)
             IN /\ positions' = r.positions
                /\ current_position' = r.current_position
          /\ lastCall' = [op |-> "place_order", id |-> id, side |-> lvl.side,
                          size |-> order_size,
                          opened |-> NeedsNewPosition(positions, current_position)]
    /\ placeQueue' = Tail(placeQueue)
    /\ pc' = "place"
    /\ UNCHANGED <<running, signals, cancelQueue, backoff, lastError, stopPc,
                   stopQueue, exOrders, exState, hist, iters>>
    /\ UNCHANGED <<taskVars, strategy, clientVars>>

StopNext ==
    \/ BotStart
    \/ CheckStatus
    \/ SleepDone
    \/ BotUpdatePosition
    \/ BotUpdateOrders
    \/ BotFetchPrice
    \/ BotCancelStep
    \/ BotCancelDone
    \/ BotPlaceSend
    \/ BotPlaceReceive
    \/ BotPlaceDone
    \/ BotRaise
    \/ BotStop
    \/ BotStopCancel
    \/ BotStopDone
    \/ ExFill
    \/ ExHealth

SpecStop == BotInit /\ [][StopNext]_vars

\* C28: once stop() has returned and every cancel request of its cleanup
\* succeeded (each order it iterated is canceled at the exchange), no order
\* the bot placed is still open at the exchange.
C28_NoOrphanOrders ==
    (/\ stopPc = "idle"
     /\ pc = "done"
     /\ ~running
     /\ \A i \in StopTargets(orders) : exOrders[i].state = "canceled")
        => Pending(exOrders) = {}

\* ------------------------------------------------------ backtest/runner.py
\* BacktestRunner.run drives the Bot against the backtest exchange, one
\* candle after the other, in a single task.

\* The candles of a run: the close is a market price, low and high lie on
\* or between the ends of the grid
Candles ==
    {c \in [low : GridPrices[1]..GridPrices[Len(GridPrices)],
            high : GridPrices[1]..GridPrices[Len(GridPrices)],
            close : MarketPrices] : c.low <= c.close /\ c.close <= c.high}

\* cancel_outdated_orders against the backtest exchange, over the snapshot
\* ids of the active orders; st holds the exchange's and the ledger's orders
RECURSIVE RunCancelOutdated(_, _, _)
RunCancelOutdated(st, ids, sig) ==
    IF ids = <<>> THEN st
    ELSE LET id == Head(ids)
             success == BtCancelOk(st.ex, id)
             next == IF ShouldCancel(st.os[id], sig)
                     THEN [ex |-> BtCancelOrder(st.ex, id),
                           os |-> IF success
                                  THEN CloseOrder(st.os, id, "strategy_change", "CANCELED")
                                  ELSE st.os]
                     ELSE st
         IN RunCancelOutdated(next, Tail(ids), sig)

\* place_new_orders against the backtest exchange, whose place_limit_order
\* always returns an id; st holds the exchange's orders, both ledgers and
\* the bot's current position
RECURSIVE RunPlaceNew(_, _)
RunPlaceNew(st, lvls) ==
    IF lvls = <<>> THEN st
    ELSE LET lvl == Head(lvls)
             id == Len(st.ex) + 1
             r == PlaceOrderPositions(st.ps, st.cur, id, lvl.side, order_size, lvl.price)
             next == IF OrderExists(st.os, lvl.side, lvl.price)
                     THEN st
                     ELSE [ex |-> BtPlaceOrder(st.ex, lvl.side, lvl.price, order_size),
                           os |-> CreateOrder(st.os, id, lvl.side, lvl.price, order_size),
                           ps |-> r.positions,
                           cur |-> r.current_position]
         IN RunPlaceNew(next, Tail(lvls))

\* Variant of RunProcessFill that leaves the order ledger as it was
RunProcessFillMut(st, f) ==
    LET pos == GetPositionForOrder(st.ps, f.ordId)
    IN [os |-> st.os,
        ps |-> IF f.ordId \in DOMAIN st.os /\ pos # 0
               THEN AddOrderToPosition(st.ps, pos, f.ordId, st.os[f.ordId].side,
                                       st.os[f.ordId].size, f.fill_price, f.fee)
               ELSE st.ps]

\* run: the body of the loop over the fills, for one fill record f; st
\* holds both ledgers
RunProcessFill(st, f) ==
    LET os == UpdateOrderFill(st.os, f.ordId, f.filled_size, f.fill_price, f.fee)
        pos == GetPositionForOrder(st.ps, f.ordId)
    IN IF f.ordId \notin DOMAIN os
       THEN [os |-> os, ps |-> st.ps]
       ELSE LET o == os[f.ordId]
            IN IF pos = 0
               THEN LET opened == OpenPosition(st.ps,
                                      IF o.side = "buy" THEN o.size ELSE -o.size,
                                      f.fill_price)
                    IN [os |-> os,
                        ps |-> AddOrderToPosition(opened, Len(opened), f.ordId, o.side,
                                                  o.size, f.fill_price, f.fee)]
               ELSE [os |-> os,
                     ps |-> AddOrderToPosition(st.ps, pos, f.ordId, o.side, o.size,
                                               f.fill_price, f.fee)]

\* run: the loop over the fills of one matching pass
RECURSIVE RunFills(_, _)
RunFills(st, fills) ==
    IF fills = <<>> THEN st
    ELSE RunFills(RunProcessFill(st, Head(fills)), Tail(fills))

\* run, one candle up to execute_strategy: set_candle, update_orders (the
\* backtest exchange reports only orders in state open, none of which
\* update_orders feeds to the ledger), update_position with the close,
\* generate_signals and execute_strategy
RunExecute ==
    /\ pc = "idle"
    /\ iters < MaxIters
    /\ \E c \in Candles :
         LET ps1 == IF current_position # 0 /\ positions[current_position].status = "OPEN"
                    THEN [positions EXCEPT ![current_position] = UpdatePrice(@, c.close)]
                    ELSE positions
             sig == GenerateSignals(c.close)
             cancelled == RunCancelOutdated([ex |-> exOrders, os |-> orders],
                                            IdList(ActiveOrders(orders)), sig)
             placed == RunPlaceNew([ex |-> cancelled.ex, os |-> cancelled.os,
                                    ps |-> ps1, cur |-> current_position],
                                   PlaceList(sig))
         IN /\ exOrders' = placed.ex
            /\ orders' = placed.os
            /\ positions' = placed.ps
            /\ current_position' = placed.cur
            /\ signals' = sig
            /\ lastCall' = [op |-> "execute_strategy", candle |-> c]
    /\ iters' = iters + 1
    /\ pc' = "match"
    /\ UNCHANGED <<running, cancelQueue, placeQueue, backoff, lastError, stopPc,
                   stopQueue, exState, hist>>
    /\ UNCHANGED <<taskVars, strategy, clientVars>>

\* run, the rest of the candle: match_orders_with_current_candle and the
\* loop over its fills
RunMatch ==
    /\ pc = "match"
    /\ LET c == lastCall.candle
           fills == BtMatchFills(exOrders, c.low, c.high, Len(exOrders))
           r == RunFills([os |-> orders, ps |-> positions], fills)
       IN /\ exOrders' = BtMatchOrders(exOrders, c.low, c.high)
          /\ orders' = r.os
          /\ positions' = r.ps
          /\ lastCall' = [op |-> "match", low |-> c.low, high |-> c.high, fills |-> fills]
    /\ pc' = "idle"
    /\ UNCHANGED <<running, current_position, signals, cancelQueue, placeQueue, backoff,
                   lastError, stopPc, stopQueue, exState, hist, iters>>
    /\ UNCHANGED <<taskVars, strategy, clientVars>>

RunNext == RunExecute \/ RunMatch

SpecRunner == BotInit /\ [][RunNext]_vars

\* C30: over a backtest run every order id is attached to at most one
\* position and appears at most once in that position's order list.
C30_CountedOnce ==
    \A p \in DOMAIN positions, q \in DOMAIN positions :
        \A k \in DOMAIN positions[p].orders, l \in DOMAIN positions[q].orders :
            positions[p].orders[k] = positions[q].orders[l] => (p = q /\ k = l)

\* ------------------------------------- further properties of the position

\* C31: the sell fill that brings an OPEN position's size to zero leaves
\* realizedPnL at its value before the fill (the sum of the earlier sell
\* fills' realizedSize*(fillPrice - entryPrice); price updates do not touch
\* it) plus this fill's realizedSize*(fillPrice - entryPrice), whatever
\* price updates came before.
C31_RealizedExact ==
    [][(/\ lastCall'.op = "add_order_to_position"
        /\ lastCall'.side = "sell"
        /\ positions[lastCall'.pid].status = "OPEN"
        /\ positions[lastCall'.pid].current_size > 0
        /\ positions'[lastCall'.pid].current_size = 0) =>
           LET pre == positions[lastCall'.pid]
               post == positions'[lastCall'.pid]
           IN post.realized_pnl =
                 pre.realized_pnl
                 + pre.current_size * (Px(lastCall'.price) - pre.entry_price)]_vars

\* C32: once a position is CLOSED no later call changes its size, entry
\* price or realizedPnL, and its unrealizedPnL stays 0.
C32_ClosedFrozen ==
    [][\A k \in DOMAIN positions :
          positions[k].status = "CLOSED" =>
              /\ positions'[k].current_size = positions[k].current_size
              /\ positions'[k].entry_price = positions[k].entry_price
              /\ positions'[k].realized_pnl = positions[k].realized_pnl
              /\ positions'[k].unrealized_pnl = 0]_vars

\* ------------------------------------- further properties of the backtest

\* The orders in state open at the backtest exchange
BtOpen(ex) == {i \in DOMAIN ex : ex[i].state = "open"}

\* C33: at the end of every candle step of a run the orders ACTIVE or
\* PARTIALLY_FILLED in the Order Ledger are exactly the orders in state open
\* at the backtest exchange, with the same side, price and size.
C33_LedgerInStep ==
    (pc = "idle" /\ lastCall.op = "match") =>
        /\ ActiveOrders(orders) = BtOpen(exOrders)
        /\ \A i \in ActiveOrders(orders) :
              /\ orders[i].side = exOrders[i].side
              /\ orders[i].price = exOrders[i].price
              /\ orders[i].size = exOrders[i].size

\* C33: a candle step has ended with one order open on both sides, after a
\* fill and a cancellation earlier in the run
C33_Witness ==
    /\ pc = "idle"
    /\ lastCall.op = "match"
    /\ ActiveOrders(orders) # {}
    /\ \E i \in DOMAIN exOrders : exOrders[i].state = "filled"
    /\ \E i \in DOMAIN exOrders : exOrders[i].state = "canceled"

\* ------------------------------- further properties of the orchestrator

\* The active orders of the ledger on one side
ActiveOn(side) == {i \in ActiveOrders(orders) : orders[i].side = side}

\* C34: when a cancel+place pass has ended (the loop sleeps for its
\* interval) the ledger holds at most max_orders active buy orders and at
\* most max_orders active sell orders, whatever the exchange answered.
C34_MaxConcurrentOrders ==
    (pc = "sleep" /\ running) =>
        /\ Cardinality(ActiveOn("buy")) <= max_orders
        /\ Cardinality(ActiveOn("sell")) <= max_orders

\* C35: once stop() has returned and every cancel request of its cleanup
\* succeeded, the Order Ledger holds no ACTIVE or PARTIALLY_FILLED order.
C35_LedgerClearedByStop ==
    (/\ stopPc = "idle"
     /\ pc = "done"
     /\ ~running
     /\ \A i \in StopTargets(orders) : exOrders[i].state = "canceled")
        => \A i \in DOMAIN orders : orders[i].status \notin {"ACTIVE", "PARTIALLY_FILLED"}

\* --------------------- Bot.place_order over the exchange client's placement

\* Bot.place_order(side, price, size) with the OkxExchange client as its
\* exchange: place_limit_order quantizes and submits the order, and when an
\* order id comes back the order enters the ledger and the position
BotClPlace ==
    \E side \in Sides, price \in 1..MaxArg, size \in 1..MaxArg, fetch \in Fetches :
        LET d == DetailsResult(fetch)
            sz == AdjustSize(size, d)
            px == AdjustPrice(price, d)
            submit == ~closing /\ ~(sz <= 0 \/ px <= 0) /\ CanSend
            id == Len(orders) + 1
        IN \E outs \in Answers(submit) :
           LET got == submit /\ \E k \in 1..3 : RequestOk(outs[k])
               r == PlaceOrderPositions(positions, current_position, id, side, size, price)
           IN /\ Len(orders) < MaxLedgerOrders
              /\ details' = IF closing THEN details ELSE DetailsCache(fetch)
              /\ wire' = IF closing THEN <<>>
                         ELSE DetailsRequest(fetch)
                              \o (IF submit THEN SubmitOrder(outs, px, sz) ELSE <<>>)
              /\ orders' = IF got THEN CreateOrder(orders, id, side, price, size) ELSE orders
              /\ positions' = IF got THEN r.positions ELSE positions
              /\ current_position' = IF got THEN r.current_position ELSE current_position
              /\ lastCall' = [op |-> "place_order", side |-> side, price |-> price,
                              size |-> size, d |-> d,
                              id |-> IF got THEN id ELSE 0]
              /\ UNCHANGED <<running, pc, signals, cancelQueue, placeQueue, backoff,
                             lastError, stopPc, stopQueue, exOrders, exState, iters, hist,
                             taskVars, strategy, closing, session, run_task, stopping>>

MirrorNext == BotClPlace

SpecMirror == PlaceInit /\ [][MirrorNext]_vars

\* C36: an order the place phase registered in the Order Ledger carries the
\* price and the size of the order request the exchange accepted for it.
C36_LedgerMirrorsSubmitted ==
    (lastCall.op = "place_order" /\ lastCall.id # 0) =>
        \E k \in OrderRequests(wire) :
            /\ RequestOk(wire[k].outcome)
            /\ orders[lastCall.id].price = wire[k].px
            /\ orders[lastCall.id].size = wire[k].sz

\* ------------------- core/exchange.py: close() against a health check in flight
\* The health loop's check_health is split at the await of its balance
\* probe: run_task is "probing" while the request is in flight.

\* health_loop: an iteration begins on a client that is not closing;
\* check_health reconnects when the state asks for it and sends its balance
\* probe, whose answer is awaited
HealthBegin ==
    /\ run_task \in {"created", "running"}
    /\ ~stopping
    /\ ~closing
    /\ \E p1 \in ConnectProbes(exState, closing) :
         LET c == IF exState \in {"DISCONNECTED", "NETWORK_ERROR"}
                  THEN Connect(exState, closing, session, p1)
                  ELSE [state |-> exState, session |-> session, result |-> TRUE,
                        wire |-> <<>>]
         IN /\ exState' = c.state
            /\ session' = c.session
            /\ wire' = c.wire
    /\ run_task' = "probing"
    /\ lastCall' = [op |-> "health_loop", ended |-> FALSE]
    /\ UNCHANGED <<clientRest, closing, stopping>>

\* check_health: the awaited probe is over. Its answer had arrived, or the
\* request failed (as it does when the session was closed under it), which
\* _request turns into ([], False); check_health sets the state from it and
\* the loop goes to sleep
HealthEnd ==
    /\ run_task = "probing"
    /\ ~stopping
    /\ \E p2 \in ProbeSet :
         /\ exState' = IF ~RequestOk(p2.outcome) THEN "API_ERROR"
                       ELSE IF p2.balance >= MinBalance THEN "ACTIVE" ELSE "BALANCE_LOW"
         /\ wire' = <<Req("balance", p2.outcome)>>
         /\ lastCall' = [op |-> "health_loop", ended |-> FALSE, probe |-> p2.outcome]
    /\ run_task' = "running"
    /\ UNCHANGED <<clientRest, closing, session, stopping>>

\* health_loop: the task is cancelled while the probe is in flight;
\* CancelledError passes through check_health to the loop, whose finally
\* block calls close() unless the client is closing
HealthCancelled ==
    /\ run_task = "probing"
    /\ stopping
    /\ run_task' = "done"
    /\ wire' = <<>>
    /\ lastCall' = [op |-> "health_loop", ended |-> TRUE]
    /\ IF closing
       THEN UNCHANGED <<closing, session, exState>>
       ELSE /\ closing' = TRUE
            /\ session' = "none"
            /\ exState' = "DISCONNECTED"
    /\ UNCHANGED <<clientRest, stopping>>

HealthNext ==
    \/ (run_task # "probing" /\ ClRun)
    \/ HealthBegin
    \/ HealthEnd
    \/ HealthCancelled
    \/ (closing /\ TaskStep)
    \/ TaskCancelled
    \/ ClStop
    \/ ClStopReturn
    \/ ClClose
    \/ ClConnect
    \/ ClCheckHealth

SpecHealth == ClientInit /\ [][HealthNext]_vars

\* C37: once close() has returned the connection state is DISCONNECTED and
\* stays DISCONNECTED, whatever health check was in flight and whatever the
\* health loop does afterwards.
C37_DisconnectedStable ==
    closing => exState = "DISCONNECTED"

\* ------------------------------ further properties of the exchange client

\* C38: when stop() has returned after waiting for the health loop and the
\* loop's cleanup has closed the client, the closing flag is set and the
\* state is DISCONNECTED; and run() on a client that is closing returns
\* without starting a health loop.
C38_StopTerminal ==
    /\ (lastCall.op = "stop" /\ lastCall.returned /\ lastCall.waited /\ closing)
          => exState = "DISCONNECTED"
    /\ (lastCall.op = "run" /\ closing)
          => (lastCall.result = "returned" /\ wire = <<>>)

\* ------------------------------ further properties of the backtest exchange

\* C39: every order yields at most one fill record over any sequence of
\* placements, cancellations and matching passes: a pass reports only orders
\* that were open, each once; a filled order stays filled and a canceled
\* order stays canceled, so neither is matched again; and cancel_order on a
\* filled, canceled or unknown order returns false and changes no order.
C39_AtMostOneFill ==
    [][/\ lastCall'.op = "match" =>
            \A k \in DOMAIN lastCall'.fills :
                /\ exOrders[lastCall'.fills[k].ordId].state = "open"
                /\ \A l \in DOMAIN lastCall'.fills :
                      lastCall'.fills[l].ordId = lastCall'.fills[k].ordId => l = k
       /\ \A i \in DOMAIN exOrders :
            exOrders[i].state \in {"filled", "canceled"} => exOrders'[i] = exOrders[i]
       /\ (/\ lastCall'.op = "cancel_order"
           /\ (lastCall'.id \notin DOMAIN exOrders \/ exOrders[lastCall'.id].state # "open"))
          => (~lastCall'.ok /\ exOrders' = exOrders)]_vars

\* C39: a matching pass whose candle covers the price of an order filled
\* earlier and of an order canceled earlier has run and reported neither
C39_Witness ==
    /\ lastCall.op = "match"
    /\ \E i \in DOMAIN exOrders, j \in DOMAIN exOrders :
        /\ exOrders[i].state = "filled"
        /\ exOrders[j].state = "canceled"
        /\ lastCall.low <= exOrders[i].price /\ exOrders[i].price <= lastCall.high
        /\ lastCall.low <= exOrders[j].price /\ exOrders[j].price <= lastCall.high
        /\ \A k \in DOMAIN lastCall.fills : lastCall.fills[k].ordId \notin {i, j}

\* --------------------------------------- the fill price under slippage

\* Slippage factors are whole numbers of 1/SlipScale; fill prices are held
\* in units of 1/SlipScale of a price unit
SlipScale == 100
MaxSlip == 5
MaxLimit == 10

\* match_orders_with_current_candle: the fill price of an order of the given
\* side and limit price on an exchange constructed with slippage slip
BtFillPrice(side, price, slip) ==
    price * (SlipScale + (IF side = "sell" THEN slip ELSE 0 - slip))

\* One order matched by an exchange with some slippage >= 0
SlipFill ==
    \E side \in Sides, price \in 1..MaxLimit, slip \in 0..MaxSlip :
        /\ lastCall' = [op |-> "fill", side |-> side, price |-> price, slip |-> slip,
                        fill_price |-> BtFillPrice(side, price, slip)]
        /\ UNCHANGED <<positions, orders, botVars, taskVars, strategy, clientVars>>

SlipNext == SlipFill

SpecSlippage == BotInit /\ [][SlipNext]_vars

\* C40: whatever the slippage factor >= 0, a buy fills at or above its limit
\* price and a sell fills at or below its limit price.
C40_AdverseSlippage ==
    lastCall.op = "fill" =>
        /\ lastCall.side = "buy" => lastCall.fill_price >= lastCall.price * SlipScale
        /\ lastCall.side = "sell" => lastCall.fill_price <= lastCall.price * SlipScale

====
